---- MODULE Spec2Model ----
(***************************************************************************)
(* The state stack of mori08/note (Siv3D_AdventCalendar_2025): an          *)
(* EntitySet of name-keyed component tables, the State units (scenario,    *)
(* wait, test, speak, walk, anim, adventure) and StateStack::update, which *)
(* updates the top unit once per frame and applies the stack operation it  *)
(* returns.                                                                *)
(*                                                                         *)
(* Numbers.  The doubles of the program are modelled by integers: a time   *)
(* is counted in half seconds (wait 1.0 is 2, a walk speed of 50 per       *)
(* second is 25 per half second), a coordinate in pixels.  Every script of *)
(* ScriptBanks keeps its values on that grid, so that the subtractions,    *)
(* comparisons and the interpolation of the code are exact in the model.   *)
(***************************************************************************)
EXTENDS Integers, Sequences, FiniteSets, TLC

VARIABLES
    m_stack,    \* StateStack::m_stack, bottom first, top last
    entities,   \* the EntitySet: nameSet, posTable, imageTable, textTable
    reader,     \* the contents of scenario.toml: scenario name -> steps
    status,     \* "running", or "error" once an exception left update()
    nextId,     \* identity given to the next unit that is constructed
    trace,      \* the hook calls of the last frame, in call order
    lastOp,     \* the StackOp type the last frame's update returned
    lastTop,    \* the unit that was updated in the last frame, as it was before
    lastIn,     \* the inputs of the last frame (delta time, keys, clock)
    popped,     \* identities of the units the stack operations so far asked to remove
    waitLog,    \* wait units on the stack: duration asked, delta time supplied
    ticks,      \* frames run so far, counted up to MaxTick
    updates     \* scenario units on the stack: update calls each has received

vars == <<m_stack, entities, reader, status, nextId, trace, lastOp, lastTop,
          lastIn, popped, waitLog, ticks, updates>>

-----------------------------------------------------------------------------
(* Bounds of the model *)

\* units constructed in one run (the replace loop of TestState never ends)
MaxUnits == 9
\* the longest frame, in half seconds: Scene::DeltaTime() is 1..MaxDelta
MaxDelta == 2
\* frames are counted up to this number; every later frame counts as this one
MaxTick == 3
\* units constructed in one run of the article's sample scenario.toml: one
\* visit of every scenario of the file takes 23, a second Talk 13 more
MaxSampleUnits == 36

(* Program constants *)

\* TestState::update replaces itself by TestState(120)
TestRestart == 120
\* SpeakState::onAfterPush puts the text at z = 1.0
SpeakZ == 1
\* AdventureState::update: 100.0 * Scene::DeltaTime(), per half second
AdventureSpeed == 50
\* AdventureState::update: Clamp(posC.pos.x, 0.0, 640.0)
AdventureMinX == 0
AdventureMaxX == 640
\* AdventureState::update: Abs(...) < 60.0
LinkDistance == 60

-----------------------------------------------------------------------------
(* EntitySet *)

EmptyTable == [n \in {} |-> 0]

EmptyEntitySet ==
    [nameSet |-> {}, posTable |-> EmptyTable, imageTable |-> EmptyTable,
     textTable |-> EmptyTable]

\* HashTable::operator[] assignment: insert or overwrite
TableSet(table, name, value) ==
    [n \in (DOMAIN table) \cup {name} |-> IF n = name THEN value ELSE table[n]]

\* HashTable::erase(key)
TableErase(table, name) == [n \in (DOMAIN table) \ {name} |-> table[n]]

\* a plausible slip of erase: the position table is forgotten
EraseKeepsPos(ents, name) ==
    [nameSet |-> ents.nameSet \ {name},
     posTable |-> ents.posTable,
     imageTable |-> TableErase(ents.imageTable, name),
     textTable |-> TableErase(ents.textTable, name)]

\* EntitySet::erase
erase(ents, name) ==
    [nameSet |-> ents.nameSet \ {name},
     posTable |-> TableErase(ents.posTable, name),
     imageTable |-> TableErase(ents.imageTable, name),
     textTable |-> TableErase(ents.textTable, name)]

\* erase every name of a set (the order of a HashSet iteration does not matter:
\* erasing one name leaves the others alone)
RECURSIVE EraseAll(_, _)
EraseAll(ents, names) ==
    IF names = {} THEN ents
    ELSE LET n == CHOOSE x \in names : TRUE
         IN EraseAll(erase(ents, n), names \ {n})

Abs(v) == IF v < 0 THEN -v ELSE v
Max(a, b) == IF a < b THEN b ELSE a
Clamp(v, lo, hi) == IF v < lo THEN lo ELSE IF hi < v THEN hi ELSE v

-----------------------------------------------------------------------------
(* scenario.toml: parameter payloads, entity declarations, steps *)

NoLink == [n \in {} |-> ""]

\* the TOMLValue of a step's param, with the keys the constructors read
Param ==
    [num |-> 0, str |-> "", entity |-> "", text |-> "",
     offset |-> [x |-> 0, y |-> 0], to |-> 0, speed |-> 1,
     imagePos |-> [x |-> 0, y |-> 0], isHidden |-> FALSE, link |-> NoLink]

PNum(v) == [Param EXCEPT !.num = v]
PStr(v) == [Param EXCEPT !.str = v]
PSpeak(e, t, oy) == [Param EXCEPT !.entity = e, !.text = t, !.offset = [x |-> 0, y |-> oy]]
PWalk(e, to, speed) == [Param EXCEPT !.entity = e, !.to = to, !.speed = speed]
PAnim(e, ix, hidden) ==
    [Param EXCEPT !.entity = e, !.imagePos = [x |-> ix, y |-> 0], !.isHidden = hidden]
PAdventure(e, link) == [Param EXCEPT !.entity = e, !.link = link]

\* one table of a make array: name, and the optional pos, image and text tables
Decl(name, hasPos, x, z, hasImage, ix, hidden, hasText, text) ==
    [name |-> name,
     hasPos |-> hasPos, pos |-> [x |-> x, y |-> 0, z |-> z],
     hasImage |-> hasImage, image |-> [imagePos |-> [x |-> ix, y |-> 0], isHidden |-> hidden],
     hasText |-> hasText, text |-> [text |-> text]]

DPos(name, x, z) == Decl(name, TRUE, x, z, FALSE, 0, FALSE, FALSE, "")
DSprite(name, x, z, ix) == Decl(name, TRUE, x, z, TRUE, ix, FALSE, FALSE, "")
DText(name, x, z, text) == Decl(name, TRUE, x, z, FALSE, 0, FALSE, TRUE, text)
DBare(name) == Decl(name, FALSE, 0, 0, FALSE, 0, FALSE, FALSE, "")

\* one table of a scenario: which of the keys make, push, replace it has
Step(isMake, make, isPush, isReplace, stateName, param) ==
    [isMake |-> isMake, make |-> make, isPush |-> isPush, isReplace |-> isReplace,
     stateName |-> stateName, param |-> param]

SMake(decls) == Step(TRUE, decls, FALSE, FALSE, "", Param)
SPush(stateName, param) == Step(FALSE, <<>>, TRUE, FALSE, stateName, param)
SReplace(stateName, param) == Step(FALSE, <<>>, FALSE, TRUE, stateName, param)
\* a table with none of the three keys
SOther == Step(FALSE, <<>>, FALSE, FALSE, "", Param)

\* the names MAKE_TABLE registers, over the drafts of ScenarioState::update
MAKE_TABLE == {"test", "wait", "speak", "walk", "anim", "adventure", "scenario"}

-----------------------------------------------------------------------------
(* State units.  One record shape for every class; a class uses its own    *)
(* members and leaves the others at their defaults.                        *)

NoState ==
    [kind |-> "none", id |-> 0,
     m_time |-> 0,
     scenarioName |-> "", m_now |-> 1, m_end |-> 1, m_nameSetMadeOnThis |-> {},
     m_entityName |-> "", m_text |-> "", m_offset |-> [x |-> 0, y |-> 0],
     m_from |-> 0, m_to |-> 0, m_speed |-> 1,
     m_timer |-> [duration |-> 0, remaining |-> 0],
     m_imagePos |-> [x |-> 0, y |-> 0], m_isHidden |-> FALSE,
     m_link |-> NoLink]

\* reader[scenarioName].tableArrayView(): empty for a name the file lacks
Steps(toml, scenarioName) ==
    IF scenarioName \in DOMAIN toml THEN toml[scenarioName] ELSE <<>>

\* TestState::TestState
TestState(id, arg) == [NoState EXCEPT !.kind = "test", !.id = id, !.m_time = arg]

\* WaitState::WaitState
WaitState(id, param) == [NoState EXCEPT !.kind = "wait", !.id = id, !.m_time = param.num]

\* a plausible slip: m_end stops one step short of end()
ScenarioStateSkipsLast(id, toml, scenarioName) ==
    [NoState EXCEPT !.kind = "scenario", !.id = id, !.scenarioName = scenarioName,
                    !.m_now = 1, !.m_end = Max(Len(Steps(toml, scenarioName)), 1),
                    !.m_nameSetMadeOnThis = {}]

\* ScenarioState::ScenarioState: m_now = begin(), m_end = end(), nothing made yet
ScenarioState(id, toml, scenarioName) ==
    [NoState EXCEPT !.kind = "scenario", !.id = id, !.scenarioName = scenarioName,
                    !.m_now = 1, !.m_end = Len(Steps(toml, scenarioName)) + 1,
                    !.m_nameSetMadeOnThis = {}]

\* SpeakState::SpeakState
SpeakState(id, param) ==
    [NoState EXCEPT !.kind = "speak", !.id = id, !.m_entityName = param.entity,
                    !.m_text = param.text, !.m_offset = param.offset]

\* WalkState::WalkState: m_from starts at 0.0, the timer is not started
WalkState(id, param) ==
    [NoState EXCEPT !.kind = "walk", !.id = id, !.m_entityName = param.entity,
                    !.m_to = param.to, !.m_from = 0, !.m_speed = param.speed]

\* AnimState::AnimState
AnimState(id, param) ==
    [NoState EXCEPT !.kind = "anim", !.id = id, !.m_entityName = param.entity,
                    !.m_imagePos = param.imagePos, !.m_isHidden = param.isHidden]

\* AdventureState::AdventureState
AdventureState(id, param) ==
    [NoState EXCEPT !.kind = "adventure", !.id = id, !.m_entityName = param.entity,
                    !.m_link = param.link]

\* MAKE_TABLE.at(stateName)(param), for a registered stateName
MakeState(id, toml, stateName, param) ==
    CASE stateName = "test" -> TestState(id, param.num)
      [] stateName = "wait" -> WaitState(id, param)
      [] stateName = "speak" -> SpeakState(id, param)
      [] stateName = "walk" -> WalkState(id, param)
      [] stateName = "anim" -> AnimState(id, param)
      [] stateName = "adventure" -> AdventureState(id, param)
      [] stateName = "scenario" -> ScenarioState(id, toml, param.str)

-----------------------------------------------------------------------------
(* What a hook hands back.  threw: an exception (HashTable::at on a missing *)
(* key) left the hook; nothing catches it, the program ends there.          *)

Entered(self, ents, threw) == [self |-> self, entities |-> ents, threw |-> threw]

Updated(type, nextState, self, ents, threw) ==
    [type |-> type, nextState |-> nextState, self |-> self, entities |-> ents,
     threw |-> threw]

None(self, ents) == Updated("NONE", NoState, self, ents, FALSE)
Pop(self, ents) == Updated("POP", NoState, self, ents, FALSE)
Push(nextState, self, ents) == Updated("PUSH", nextState, self, ents, FALSE)
Replace(nextState, self, ents) == Updated("REPLACE", nextState, self, ents, FALSE)
Threw(self, ents) == Updated("NONE", NoState, self, ents, TRUE)

-----------------------------------------------------------------------------
(* TestState *)

\* a plausible slip: m_time-- in place of --m_time
TestPostDecrement(self, ents, id) ==
    LET me == [self EXCEPT !.m_time = self.m_time - 1]
    IN IF self.m_time < 0 THEN Replace(TestState(id, TestRestart), me, ents)
       ELSE None(me, ents)

\* TestState::update
TestState_update(self, ents, id) ==
    LET me == [self EXCEPT !.m_time = self.m_time - 1]
    IN IF me.m_time < 0 THEN Replace(TestState(id, TestRestart), me, ents)
       ELSE None(me, ents)

-----------------------------------------------------------------------------
(* WaitState *)

\* a plausible slip: the wait ends as soon as no time remains
WaitPopsAtZero(self, ents, dt) ==
    LET me == [self EXCEPT !.m_time = self.m_time - dt]
    IN IF me.m_time <= 0 THEN Pop(me, ents) ELSE None(me, ents)

\* a plausible slip: the difference is tested but not stored in m_time
WaitKeepsTime(self, ents, dt) ==
    IF self.m_time - dt < 0 THEN Pop(self, ents) ELSE None(self, ents)

\* a plausible slip: the wait that ends takes the entities with it
WaitClearsStore(self, ents, dt) ==
    LET me == [self EXCEPT !.m_time = self.m_time - dt]
    IN IF me.m_time < 0 THEN Pop(me, EmptyEntitySet) ELSE None(me, ents)

\* WaitState::update: m_time -= Scene::DeltaTime(); pop when m_time < 0
WaitState_update(self, ents, dt) ==
    LET me == [self EXCEPT !.m_time = self.m_time - dt]
    IN IF me.m_time < 0 THEN Pop(me, ents) ELSE None(me, ents)

-----------------------------------------------------------------------------
(* ScenarioState *)

\* a plausible slip: the name is not inserted into nameSet
MakeEntityForgetsName(ents, decl) ==
    LET e2 == IF decl.hasPos
              THEN [ents EXCEPT !.posTable = TableSet(@, decl.name, decl.pos)]
              ELSE ents
        e3 == IF decl.hasImage
              THEN [e2 EXCEPT !.imageTable = TableSet(@, decl.name, decl.image)]
              ELSE e2
    IN IF decl.hasText
       THEN [e3 EXCEPT !.textTable = TableSet(@, decl.name, decl.text)]
       ELSE e3

\* a plausible slip: the three tests are chained with else, so a table gives
\* the entity one component at most
MakeEntityElseIf(ents, decl) ==
    LET e1 == [ents EXCEPT !.nameSet = @ \cup {decl.name}]
    IN IF decl.hasPos
       THEN [e1 EXCEPT !.posTable = TableSet(@, decl.name, decl.pos)]
       ELSE IF decl.hasImage
       THEN [e1 EXCEPT !.imageTable = TableSet(@, decl.name, decl.image)]
       ELSE IF decl.hasText
       THEN [e1 EXCEPT !.textTable = TableSet(@, decl.name, decl.text)]
       ELSE e1

\* one table of the make array
MakeEntity(ents, decl) ==
    LET e1 == [ents EXCEPT !.nameSet = @ \cup {decl.name}]
        e2 == IF decl.hasPos
              THEN [e1 EXCEPT !.posTable = TableSet(@, decl.name, decl.pos)]
              ELSE e1
        e3 == IF decl.hasImage
              THEN [e2 EXCEPT !.imageTable = TableSet(@, decl.name, decl.image)]
              ELSE e2
    IN IF decl.hasText
       THEN [e3 EXCEPT !.textTable = TableSet(@, decl.name, decl.text)]
       ELSE e3

\* ScenarioState::makeEntities, the store after the loop
RECURSIVE makeEntities(_, _)
makeEntities(ents, decls) ==
    IF decls = <<>> THEN ents
    ELSE makeEntities(MakeEntity(ents, Head(decls)), Tail(decls))

\* the names makeEntities inserts into m_nameSetMadeOnThis
MadeNames(decls) == {decls[i].name : i \in DOMAIN decls}

\* a plausible slip: the end of the script is tested after the step as well,
\* so the update that runs the last step returns POP at once
ScenarioPopsAfterLast(self, ents, toml, id) ==
    IF self.m_now = self.m_end THEN Pop(self, ents)
    ELSE
      LET nowToml == Steps(toml, self.scenarioName)[self.m_now]
          me == [self EXCEPT !.m_now = self.m_now + 1]
      IN IF nowToml.isMake
         THEN LET made == [me EXCEPT !.m_nameSetMadeOnThis = @ \cup MadeNames(nowToml.make)]
              IN IF made.m_now = made.m_end
                 THEN Pop(made, makeEntities(ents, nowToml.make))
                 ELSE None(made, makeEntities(ents, nowToml.make))
         ELSE IF nowToml.isPush
         THEN IF nowToml.stateName \in MAKE_TABLE
              THEN Push(MakeState(id, toml, nowToml.stateName, nowToml.param), me, ents)
              ELSE Threw(me, ents)
         ELSE IF nowToml.isReplace
         THEN IF nowToml.stateName \in MAKE_TABLE
              THEN Replace(MakeState(id, toml, nowToml.stateName, nowToml.param), me, ents)
              ELSE Threw(me, ents)
         ELSE None(me, ents)

\* a plausible slip: a name MAKE_TABLE lacks is looked up with a default and
\* the step is passed over
ScenarioSkipsUnknown(self, ents, toml, id) ==
    IF self.m_now = self.m_end THEN Pop(self, ents)
    ELSE
      LET nowToml == Steps(toml, self.scenarioName)[self.m_now]
          me == [self EXCEPT !.m_now = self.m_now + 1]
      IN IF nowToml.isMake
         THEN None([me EXCEPT !.m_nameSetMadeOnThis = @ \cup MadeNames(nowToml.make)],
                   makeEntities(ents, nowToml.make))
         ELSE IF nowToml.isPush
         THEN IF nowToml.stateName \in MAKE_TABLE
              THEN Push(MakeState(id, toml, nowToml.stateName, nowToml.param), me, ents)
              ELSE None(me, ents)
         ELSE IF nowToml.isReplace
         THEN IF nowToml.stateName \in MAKE_TABLE
              THEN Replace(MakeState(id, toml, nowToml.stateName, nowToml.param), me, ents)
              ELSE None(me, ents)
         ELSE None(me, ents)

\* a plausible slip: ++m_now comes after the push branch, so a step that
\* pushed is still the current one when the unit is updated again
ScenarioRepeatsPush(self, ents, toml, id) ==
    IF self.m_now = self.m_end THEN Pop(self, ents)
    ELSE
      LET nowToml == Steps(toml, self.scenarioName)[self.m_now]
          me == [self EXCEPT !.m_now = self.m_now + 1]
      IN IF nowToml.isMake
         THEN None([me EXCEPT !.m_nameSetMadeOnThis = @ \cup MadeNames(nowToml.make)],
                   makeEntities(ents, nowToml.make))
         ELSE IF nowToml.isPush
         THEN IF nowToml.stateName \in MAKE_TABLE
              THEN Push(MakeState(id, toml, nowToml.stateName, nowToml.param), self, ents)
              ELSE Threw(me, ents)
         ELSE IF nowToml.isReplace
         THEN IF nowToml.stateName \in MAKE_TABLE
              THEN Replace(MakeState(id, toml, nowToml.stateName, nowToml.param), me, ents)
              ELSE Threw(me, ents)
         ELSE None(me, ents)

\* a plausible slip: ++m_now comes after the step has been carried out, so a
\* step whose name MAKE_TABLE lacks is not passed
ScenarioAdvancesLast(self, ents, toml, id) ==
    IF self.m_now = self.m_end THEN Pop(self, ents)
    ELSE
      LET nowToml == Steps(toml, self.scenarioName)[self.m_now]
          me == [self EXCEPT !.m_now = self.m_now + 1]
      IN IF nowToml.isMake
         THEN None([me EXCEPT !.m_nameSetMadeOnThis = @ \cup MadeNames(nowToml.make)],
                   makeEntities(ents, nowToml.make))
         ELSE IF nowToml.isPush
         THEN IF nowToml.stateName \in MAKE_TABLE
              THEN Push(MakeState(id, toml, nowToml.stateName, nowToml.param), me, ents)
              ELSE Threw(self, ents)
         ELSE IF nowToml.isReplace
         THEN IF nowToml.stateName \in MAKE_TABLE
              THEN Replace(MakeState(id, toml, nowToml.stateName, nowToml.param), me, ents)
              ELSE Threw(self, ents)
         ELSE None(me, ents)

\* ScenarioState::update
ScenarioState_update(self, ents, toml, id) ==
    IF self.m_now = self.m_end THEN Pop(self, ents)
    ELSE
      LET nowToml == Steps(toml, self.scenarioName)[self.m_now]
          me == [self EXCEPT !.m_now = self.m_now + 1]
      IN IF nowToml.isMake
         THEN None([me EXCEPT !.m_nameSetMadeOnThis = @ \cup MadeNames(nowToml.make)],
                   makeEntities(ents, nowToml.make))
         ELSE IF nowToml.isPush
         THEN IF nowToml.stateName \in MAKE_TABLE
              THEN Push(MakeState(id, toml, nowToml.stateName, nowToml.param), me, ents)
              ELSE Threw(me, ents)
         ELSE IF nowToml.isReplace
         THEN IF nowToml.stateName \in MAKE_TABLE
              THEN Replace(MakeState(id, toml, nowToml.stateName, nowToml.param), me, ents)
              ELSE Threw(me, ents)
         ELSE None(me, ents)

\* a plausible slip: the loop over m_nameSetMadeOnThis stops after one name
OnBeforePopErasesOne(self, ents) ==
    IF self.m_nameSetMadeOnThis = {} THEN ents
    ELSE erase(ents, CHOOSE n \in self.m_nameSetMadeOnThis : TRUE)

\* ScenarioState::onBeforePop
ScenarioState_onBeforePop(self, ents) == EraseAll(ents, self.m_nameSetMadeOnThis)

-----------------------------------------------------------------------------
(* SpeakState *)

SpeakName(entityName) == entityName \o "_speak"

\* a plausible slip: the components are set but the name is not inserted
SpeakForgetsName(self, ents) ==
    IF self.m_entityName \notin DOMAIN ents.posTable THEN Entered(self, ents, TRUE)
    ELSE
      LET entityPosC == ents.posTable[self.m_entityName]
          name == SpeakName(self.m_entityName)
          pos == [x |-> entityPosC.x + self.m_offset.x,
                  y |-> entityPosC.y + self.m_offset.y,
                  z |-> SpeakZ]
      IN Entered(self,
                 [ents EXCEPT !.posTable = TableSet(@, name, pos),
                              !.textTable = TableSet(@, name, [text |-> self.m_text])],
                 FALSE)

\* SpeakState::onAfterPush
SpeakState_onAfterPush(self, ents) ==
    IF self.m_entityName \notin DOMAIN ents.posTable THEN Entered(self, ents, TRUE)
    ELSE
      LET entityPosC == ents.posTable[self.m_entityName]
          name == SpeakName(self.m_entityName)
          pos == [x |-> entityPosC.x + self.m_offset.x,
                  y |-> entityPosC.y + self.m_offset.y,
                  z |-> SpeakZ]
      IN Entered(self,
                 [ents EXCEPT !.nameSet = @ \cup {name},
                              !.posTable = TableSet(@, name, pos),
                              !.textTable = TableSet(@, name, [text |-> self.m_text])],
                 FALSE)

\* SpeakState::update
SpeakState_update(self, ents, space) ==
    IF space THEN Pop(self, ents) ELSE None(self, ents)

\* a plausible slip: the text entity is left in the store
SpeakLeavesText(self, ents) == ents

\* SpeakState::onBeforePop
SpeakState_onBeforePop(self, ents) == erase(ents, SpeakName(self.m_entityName))

-----------------------------------------------------------------------------
(* WalkState.  m_timer is a Siv3D Timer, a countdown on the steady clock:   *)
(* the model keeps its duration and the time that remained at the last      *)
(* reading.  A walk unit is only ever on top of the stack, so one frame's   *)
(* delta time passes between two of its updates.  The timer of a walk       *)
(* counts in units of 1 / m_speed of the time unit, the time of one pixel:  *)
(* its duration |to - from| / speed is then the whole number |to - from|,   *)
(* a span of time dt is dt * m_speed, and the quotients of progress0_1 and  *)
(* of the interpolation are exact for every speed.                          *)

\* Timer{ SecondsF(d), StartImmediately::Yes }
Timer(duration) == [duration |-> duration, remaining |-> duration]

\* the countdown after a further span of time, not below zero
TimerAfter(timer, span) == [timer EXCEPT !.remaining = Max(timer.remaining - span, 0)]

\* Timer::progress0_1 as the fraction num / den; 1 for a timer of no duration
progress0_1(timer) ==
    IF timer.duration = 0 THEN [num |-> 1, den |-> 1]
    ELSE [num |-> timer.duration - timer.remaining, den |-> timer.duration]

\* Timer::isRunning: started and not yet at zero
isRunning(timer) == timer.remaining > 0

\* (1 - t) * from + t * to, for t = num / den
Lerp(t, from, to) == ((t.den - t.num) * from + t.num * to) \div t.den

\* WalkState::onAfterPush
WalkState_onAfterPush(self, ents) ==
    IF self.m_entityName \notin DOMAIN ents.posTable THEN Entered(self, ents, TRUE)
    ELSE
      LET from == ents.posTable[self.m_entityName].x
          me == [self EXCEPT !.m_from = from,
                             !.m_timer = Timer(Abs(self.m_to - from))]
      IN IF self.m_entityName \notin DOMAIN ents.imageTable THEN Entered(me, ents, TRUE)
         ELSE IF me.m_to < me.m_from
         THEN Entered(me, [ents EXCEPT !.imageTable[self.m_entityName].imagePos.x = 1], FALSE)
         ELSE IF me.m_from < me.m_to
         THEN Entered(me, [ents EXCEPT !.imageTable[self.m_entityName].imagePos.x = 2], FALSE)
         ELSE Entered(me, ents, FALSE)

\* a plausible slip: the timer is started again at every update
WalkRestartsTimer(self, ents, dt, clock) ==
    IF self.m_entityName \notin DOMAIN ents.posTable THEN Threw(self, ents)
    ELSE
      LET atProgress == TimerAfter(Timer(self.m_timer.duration), 0)
          t == progress0_1(atProgress)
          atRunning == TimerAfter(atProgress, clock * self.m_speed)
          me == [self EXCEPT !.m_timer = atProgress]
          moved == [ents EXCEPT !.posTable[self.m_entityName].x =
                                    Lerp(t, self.m_from, self.m_to)]
      IN IF isRunning(atRunning) THEN None(me, moved) ELSE Pop(me, moved)

\* a plausible slip: the unit that leaves does not write its last position
WalkLeavesEarly(self, ents, dt, clock) ==
    IF self.m_entityName \notin DOMAIN ents.posTable THEN Threw(self, ents)
    ELSE
      LET atProgress == TimerAfter(self.m_timer, dt * self.m_speed)
          t == progress0_1(atProgress)
          atRunning == TimerAfter(atProgress, clock * self.m_speed)
          me == [self EXCEPT !.m_timer = atProgress]
          moved == [ents EXCEPT !.posTable[self.m_entityName].x =
                                    Lerp(t, self.m_from, self.m_to)]
      IN IF isRunning(atRunning) THEN None(me, moved) ELSE Pop(me, ents)

\* WalkState::update.  dt has passed since the last reading of the timer;
\* clock is the time that passes between the reading of progress0_1() and
\* the reading of isRunning(), which are two readings of the steady clock.
WalkState_update(self, ents, dt, clock) ==
    IF self.m_entityName \notin DOMAIN ents.posTable THEN Threw(self, ents)
    ELSE
      LET atProgress == TimerAfter(self.m_timer, dt * self.m_speed)
          t == progress0_1(atProgress)
          atRunning == TimerAfter(atProgress, clock * self.m_speed)
          me == [self EXCEPT !.m_timer = atProgress]
          moved == [ents EXCEPT !.posTable[self.m_entityName].x =
                                    Lerp(t, self.m_from, self.m_to)]
      IN IF isRunning(atRunning) THEN None(me, moved) ELSE Pop(me, moved)

-----------------------------------------------------------------------------
(* AnimState *)

\* a plausible slip: count() guards the access, a missing sprite is passed over
AnimSkipsMissing(self, ents) ==
    IF self.m_entityName \notin DOMAIN ents.imageTable THEN Entered(self, ents, FALSE)
    ELSE Entered(self,
                 [ents EXCEPT !.imageTable[self.m_entityName].imagePos = self.m_imagePos,
                              !.imageTable[self.m_entityName].isHidden = self.m_isHidden],
                 FALSE)

\* AnimState::onAfterPush
AnimState_onAfterPush(self, ents) ==
    IF self.m_entityName \notin DOMAIN ents.imageTable THEN Entered(self, ents, TRUE)
    ELSE Entered(self,
                 [ents EXCEPT !.imageTable[self.m_entityName].imagePos = self.m_imagePos,
                              !.imageTable[self.m_entityName].isHidden = self.m_isHidden],
                 FALSE)

\* a plausible slip: the unit stays until something else removes it
AnimStays(self, ents) == None(self, ents)

\* AnimState::update
AnimState_update(self, ents) == Pop(self, ents)

-----------------------------------------------------------------------------
(* AdventureState *)

\* a plausible slip: the clamp comes before the move
AdventureClampsFirst(ents, name, dt, left, right) ==
    LET posC == ents.posTable[name]
        x0 == Clamp(posC.x, AdventureMinX, AdventureMaxX)
        x == IF left THEN x0 - AdventureSpeed * dt
             ELSE IF right THEN x0 + AdventureSpeed * dt
             ELSE x0
        e1 == [ents EXCEPT !.posTable[name].x = x]
    IN IF left THEN [e1 EXCEPT !.imageTable[name].imagePos.x = 1]
       ELSE IF right THEN [e1 EXCEPT !.imageTable[name].imagePos.x = 2]
       ELSE e1

\* the move of AdventureState::update: left, else right, then the clamp
AdventureMove(ents, name, dt, left, right) ==
    LET posC == ents.posTable[name]
        x == IF left THEN posC.x - AdventureSpeed * dt
             ELSE IF right THEN posC.x + AdventureSpeed * dt
             ELSE posC.x
        e1 == [ents EXCEPT !.posTable[name].x = Clamp(x, AdventureMinX, AdventureMaxX)]
    IN IF left THEN [e1 EXCEPT !.imageTable[name].imagePos.x = 1]
       ELSE IF right THEN [e1 EXCEPT !.imageTable[name].imagePos.x = 2]
       ELSE e1

\* a plausible slip: <= in place of < in the test of the distance
LinksInReachInclusive(self, ents, space) ==
    {targetName \in DOMAIN self.m_link :
        /\ targetName \in DOMAIN ents.posTable
        /\ Abs(ents.posTable[self.m_entityName].x - ents.posTable[targetName].x)
              <= LinkDistance
        /\ space}

\* the links whose target is close enough for the confirm key to start them
LinksInReach(self, ents, space) ==
    {targetName \in DOMAIN self.m_link :
        /\ targetName \in DOMAIN ents.posTable
        /\ Abs(ents.posTable[self.m_entityName].x - ents.posTable[targetName].x)
              < LinkDistance
        /\ space}

\* AdventureState::update, every outcome it can have.  The loop visits m_link
\* in the order of the hash table, which the program does not fix: it stops
\* at the first link in reach (push) or at the first link whose target has no
\* position (at() throws), whichever the order brings first.
AdventureState_update(self, ents, toml, id, dt, space, left, right) ==
    IF \/ self.m_entityName \notin DOMAIN ents.posTable
       \/ self.m_entityName \notin DOMAIN ents.imageTable
    THEN {Threw(self, ents)}
    ELSE
      LET moved == AdventureMove(ents, self.m_entityName, dt, left, right)
          reach == LinksInReach(self, moved, space)
          missing == (DOMAIN self.m_link) \ DOMAIN moved.posTable
      IN {Push(ScenarioState(id, toml, self.m_link[targetName]), self, moved) :
             targetName \in reach}
         \cup (IF missing # {} THEN {Threw(self, moved)} ELSE {})
         \cup (IF reach = {} /\ missing = {} THEN {None(self, moved)} ELSE {})

-----------------------------------------------------------------------------
(* Virtual dispatch on the class of the unit *)

\* State::onAfterPush
onAfterPush(self, ents) ==
    CASE self.kind = "speak" -> SpeakState_onAfterPush(self, ents)
      [] self.kind = "walk" -> WalkState_onAfterPush(self, ents)
      [] self.kind = "anim" -> AnimState_onAfterPush(self, ents)
      [] OTHER -> Entered(self, ents, FALSE)

\* State::onBeforePop
onBeforePop(self, ents) ==
    CASE self.kind = "scenario" -> ScenarioState_onBeforePop(self, ents)
      [] self.kind = "speak" -> SpeakState_onBeforePop(self, ents)
      [] OTHER -> ents

\* State::update: the outcomes the update of this unit can have in a frame
\* with inputs in; id is the identity of a unit it constructs
update(self, ents, toml, id, in) ==
    CASE self.kind = "test" -> {TestState_update(self, ents, id)}
      [] self.kind = "wait" -> {WaitState_update(self, ents, in.dt)}
      [] self.kind = "scenario" -> {ScenarioState_update(self, ents, toml, id)}
      [] self.kind = "speak" -> {SpeakState_update(self, ents, in.space)}
      [] self.kind = "walk" -> {WalkState_update(self, ents, in.dt, in.clock)}
      [] self.kind = "anim" -> {AnimState_update(self, ents)}
      [] self.kind = "adventure" ->
            AdventureState_update(self, ents, toml, id, in.dt, in.space, in.left, in.right)

-----------------------------------------------------------------------------
(* StateStack.  A machine is the stack and the store in the middle of an   *)
(* update, with the hook calls made so far.                                *)

Machine(stack, ents, calls, threw) ==
    [stack |-> stack, entities |-> ents, trace |-> calls, threw |-> threw]

Call(hook, unit) == [hook |-> hook, id |-> unit.id]

\* a plausible slip: front() for back()
TopIsFront(stack) == stack[1]

\* m_stack.back()
Top(stack) == stack[Len(stack)]

\* a plausible slip of pop: the unit at the bottom is the one that goes
PopsBottom(m) ==
    Machine(Tail(m.stack),
            onBeforePop(Head(m.stack), m.entities),
            Append(m.trace, Call("onBeforePop", Head(m.stack))),
            m.threw)

\* a plausible slip of pop: pop_back without the call of onBeforePop
PopWithoutHook(m) ==
    Machine(SubSeq(m.stack, 1, Len(m.stack) - 1), m.entities, m.trace, m.threw)

\* StateStack::pop
pop(m) ==
    Machine(SubSeq(m.stack, 1, Len(m.stack) - 1),
            onBeforePop(Top(m.stack), m.entities),
            Append(m.trace, Call("onBeforePop", Top(m.stack))),
            m.threw)

\* a plausible slip of push: the hook of the new unit is not called
PushWithoutHook(m, nextState) ==
    Machine(Append(m.stack, nextState), m.entities, m.trace, m.threw)

\* a plausible slip of push: the new unit goes under the others
PushesUnder(m, nextState) ==
    LET r == onAfterPush(nextState, m.entities)
    IN Machine(<<r.self>> \o m.stack, r.entities,
               Append(m.trace, Call("onAfterPush", nextState)), r.threw)

\* StateStack::push
push(m, nextState) ==
    LET r == onAfterPush(nextState, m.entities)
    IN Machine(Append(m.stack, r.self), r.entities,
               Append(m.trace, Call("onAfterPush", nextState)), r.threw)

\* a plausible slip: m_stack.clear() in place of the loop of pops
ClearsStack(m) == Machine(<<>>, m.entities, m.trace, m.threw)

\* while (not m_stack.empty()) { pop(entities); }
RECURSIVE PopAll(_)
PopAll(m) == IF m.stack = <<>> THEN m ELSE PopAll(pop(m))

\* a plausible slip of the REPLACE case: only the top unit is popped
ReplacePopsOnce(m, nextState) == push(pop(m), nextState)

\* a plausible slip of the REPLACE case: the new unit is entered before the
\* old ones are exited
ReplaceEntersFirst(m, nextState) ==
    LET r == onAfterPush(nextState, m.entities)
        cleared == PopAll(Machine(m.stack, r.entities,
                                  Append(m.trace, Call("onAfterPush", nextState)),
                                  r.threw))
    IN Machine(<<r.self>>, cleared.entities, cleared.trace, cleared.threw)

\* a plausible slip of the REPLACE case: the new unit goes on top of the old
ReplacePushes(m, nextState) == push(m, nextState)

\* the REPLACE case of StateStack::update
ReplaceCase(m, nextState) == push(PopAll(m), nextState)

\* the switch of StateStack::update on the type update() returned
Apply(m, type, nextState) ==
    CASE type = "NONE" -> m
      [] type = "POP" -> pop(m)
      [] type = "PUSH" -> push(m, nextState)
      [] type = "REPLACE" -> ReplaceCase(m, nextState)

\* StateStack::update on a stack that is not empty, for one outcome r of the
\* update of the top unit: the machine when update() returns or throws
AfterUpdate(stack, r) ==
    LET m == Machine([stack EXCEPT ![Len(stack)] = r.self], r.entities,
                     <<Call("update", Top(stack))>>, r.threw)
    IN IF r.threw THEN m ELSE Apply(m, r.type, r.nextState)

-----------------------------------------------------------------------------
(* The render pass.  It reads the store and changes nothing; what it hands  *)
(* back here is the order in which it visits the entities.  The repository  *)
(* has two of them: drawEntities sorts, Game::draw does not.                *)

\* the entities the pass draws: the names of nameSet that have a position
Positioned(ents) == {name \in ents.nameSet : name \in DOMAIN ents.posTable}

\* the orders in which an iteration over a HashSet can come to its elements:
\* the order is the hash table's, the program does not fix it
RECURSIVE HashOrders(_)
HashOrders(S) ==
    IF S = {} THEN {<<>>}
    ELSE UNION {{<<x>> \o order : order \in HashOrders(S \ {x})} : x \in S}

\* the elements of order that are in S, in their order
RECURSIVE Filter(_, _)
Filter(order, S) ==
    IF order = <<>> THEN <<>>
    ELSE IF Head(order) \in S THEN <<Head(order)>> \o Filter(Tail(order), S)
    ELSE Filter(Tail(order), S)

\* Game::draw: the loop over nameSet, passing over a name without position;
\* every order it can visit the entities in
Game_draw(ents) == {Filter(order, Positioned(ents)) : order \in HashOrders(ents.nameSet)}

\* the entity names of the scripts in the order of String::operator<
\* (code points: '_' is before the small letters, a prefix before the longer)
NameOrder ==
    <<"a", "b", "background", "c", "d", "door", "e", "ghost", "late", "nobody",
      "npc", "npc_speak", "p", "p_speak", "player", "player_speak", "q", "r",
      "sign", "sign_speak", "t", "x", "y", "z">>

NameRank(name) == CHOOSE i \in DOMAIN NameOrder : NameOrder[i] = name

\* operator< of std::pair<double, String> on (z, name)
DrawsBefore(ents, a, b) ==
    \/ ents.posTable[a].z < ents.posTable[b].z
    \/ /\ ents.posTable[a].z = ents.posTable[b].z
       /\ NameRank(a) < NameRank(b)

\* std::sort of the draw list
RECURSIVE SortByDepth(_, _)
SortByDepth(ents, S) ==
    IF S = {} THEN <<>>
    ELSE LET first == CHOOSE a \in S : \A b \in S \ {a} : DrawsBefore(ents, a, b)
         IN <<first>> \o SortByDepth(ents, S \ {first})

\* drawEntities: the draw list of the positioned names, sorted, then drawn
drawEntities(ents) == SortByDepth(ents, Positioned(ents))

-----------------------------------------------------------------------------
(* The scenario.toml files the model runs *)

\* make "a", then wait 1.0
BankWait ==
    [init |-> <<SMake(<<DPos("a", 0, 0)>>), SPush("wait", PNum(2))>>]

\* nested scenarios three deep, a speak and a wait on top of them, a replace
\* from the third level, and a test unit that replaces itself
BankNest ==
    [init |-> <<SMake(<<DSprite("p", 100, 0, 0)>>),
                SPush("scenario", PStr("A")),
                SPush("wait", PNum(1))>>,
     A |-> <<SMake(<<DPos("b", 10, 0), DText("t", 20, 1, "b")>>),
             SPush("scenario", PStr("B")),
             SMake(<<DBare("late")>>)>>,
     B |-> <<SMake(<<DPos("e", 50, 0)>>),
             SPush("wait", PNum(3)),
             SPush("speak", PSpeak("p", "hi", -60)),
             SPush("scenario", PStr("D")),
             SReplace("scenario", PStr("C"))>>,
     C |-> <<SMake(<<DPos("c", 30, 0)>>),
             SPush("test", PNum(1))>>,
     D |-> <<SMake(<<DPos("d", 40, 0)>>)>>]

\* walk 0 -> 100 at 50 per second (2.0 s), back at 100 per second, then hide
BankWalk ==
    [init |-> <<SMake(<<DSprite("p", 0, 0, 0)>>),
                SPush("walk", PWalk("p", 100, 25)),
                SPush("walk", PWalk("p", 0, 50)),
                SPush("walk", PWalk("p", 0, 50)),
                SPush("anim", PAnim("p", 3, TRUE))>>]

\* an exploration with one link, entered by a replace from the first level
BankAdventure ==
    [init |-> <<SReplace("scenario", PStr("Room"))>>,
     Room |-> <<SMake(<<DSprite("player", 100, 0, 0), DSprite("npc", 200, 0, 1)>>),
                SPush("adventure", PAdventure("player", [npc |-> "Talk"]))>>,
     Talk |-> <<SPush("speak", PSpeak("npc", "...", -60)),
                SPush("anim", PAnim("npc", 2, FALSE))>>]

\* a table without make, push or replace, then a name MAKE_TABLE lacks
BankUnknown ==
    [init |-> <<SMake(<<DPos("a", 0, 0)>>), SOther, SPush("jump", Param)>>]

\* a name MAKE_TABLE lacks in the first step, with steps after it
BankUnknownFirst ==
    [init |-> <<SPush("jump", Param), SMake(<<DPos("a", 0, 0)>>),
                SPush("wait", PNum(1))>>]

\* three make batches and nothing else; the last declares "x" again
BankMake ==
    [init |-> <<SMake(<<DPos("x", 0, 0)>>),
                SMake(<<DSprite("y", 10, 0, 0), DText("z", 20, 1, "z")>>),
                SMake(<<DPos("x", 30, 0)>>)>>]

\* names that meet: the scenario declares "p_speak", the name of the text a
\* speak on "p" makes, and two nested scenarios declare "p" again
BankCollide ==
    [init |-> <<SMake(<<DSprite("p", 100, 0, 0), DText("p_speak", 5, 0, "sign"),
                        DPos("q", 7, 0)>>),
                SPush("speak", PSpeak("p", "hi", -60)),
                SPush("speak", PSpeak("p", "again", -60)),
                SPush("scenario", PStr("Inner"))>>,
     Inner |-> <<SMake(<<DPos("p", 300, 0)>>),
                 SPush("scenario", PStr("Leaf"))>>,
     Leaf |-> <<SMake(<<DPos("p", 400, 0)>>)>>]

\* a nested scenario with a table without keys, then a replace by a name
\* MAKE_TABLE lacks
BankUnknownReplace ==
    [init |-> <<SMake(<<DPos("a", 0, 0)>>), SPush("scenario", PStr("R"))>>,
     R |-> <<SMake(<<DText("r", 10, 0, "r")>>), SOther, SReplace("warp", Param)>>]

\* units on entities that lack a component: "sign" has a position and no
\* sprite, "ghost" is a name without components, "nobody" is not declared
FaultSteps ==
    {SPush("speak", PSpeak("ghost", "?", -60)),
     SPush("speak", PSpeak("nobody", "?", -60)),
     SPush("walk", PWalk("ghost", 100, 25)),
     SPush("walk", PWalk("sign", 160, 25)),
     SPush("anim", PAnim("sign", 1, FALSE)),
     SReplace("anim", PAnim("player", 1, FALSE)),
     SPush("adventure", PAdventure("sign", NoLink)),
     SPush("adventure", PAdventure("ghost", NoLink)),
     SPush("adventure", PAdventure("player", [ghost |-> "init"])),
     SPush("adventure", PAdventure("player", [ghost |-> "init", sign |-> "Read"]))}

BankFault(step) ==
    [init |-> <<SMake(<<DSprite("player", 100, 0, 0), DPos("sign", 110, 0),
                        DBare("ghost")>>),
                step>>,
     Read |-> <<SPush("speak", PSpeak("sign", "...", -60))>>]

BankFaults == {BankFault(step) : step \in FaultSteps}

\* an exploration whose entity is declared outside the room: right of 640,
\* with a linked sign at 580, which from the wall is exactly the link
\* distance away; and left of 0, without links
BankEdge(x, link) ==
    [init |-> <<SMake(<<DSprite("player", x, 0, 0), DPos("sign", 580, 0)>>),
                SPush("adventure", PAdventure("player", link))>>,
     Read |-> <<>>]

BankEdges == {BankEdge(700, [sign |-> "Read"]), BankEdge(-40, NoLink)}

\* the walk that takes the npc out of the screen has speed = 1e10; the number
\* stands for it: at any speed above 450 per frame the walk from 550 to 1000
\* is over at its first update
SampleFastSpeed == 1000000

\* a table with the key reset: the article's ScenarioState::update reads it
\* as a reset of the stack, the update of Main.cpp reads the key replace and
\* finds no key it knows
SReset(readsReset, stateName, param) ==
    IF readsReset THEN SReplace(stateName, param) ELSE SOther

\* the article's scenario.toml.  Seconds are written in half seconds and
\* speeds per half second (40 per second is 20); the wait of 0.2 s is shorter
\* than any frame and is over at its first update, as a wait of 0 is; the
\* door's z of -0.9 lies between the background's and the others', where its
\* name puts it already among equal z
SampleToml(readsReset) ==
    [init |-> <<SReset(readsReset, "scenario", PStr("Room1"))>>,
     Room1 |-> <<SMake(<<DSprite("background", 320, -1, 0),
                         DSprite("player", 100, 0, 0),
                         DSprite("npc", 360, 0, 1),
                         DSprite("door", 550, -1, 0)>>),
                 SPush("adventure",
                       PAdventure("player", [npc |-> "Talk", door |-> "Door"]))>>,
     Talk |-> <<SPush("speak", PSpeak("player", "konnichiwa", -60)),
                SPush("wait", PNum(1)),
                SPush("speak", PSpeak("npc", "...", -60)),
                SPush("walk", PWalk("npc", 450, 20)),
                SPush("anim", PAnim("npc", 1, FALSE)),
                SPush("wait", PNum(1)),
                SPush("speak", PSpeak("npc", "tsuitekite", -60)),
                SPush("walk", PWalk("npc", 550, 20)),
                SPush("anim", PAnim("npc", 3, FALSE)),
                SPush("wait", PNum(2)),
                SPush("anim", PAnim("npc", 3, TRUE)),
                SPush("walk", PWalk("npc", 1000, SampleFastSpeed))>>,
     Door |-> <<SPush("anim", PAnim("player", 3, FALSE)),
                SReset(readsReset, "scenario", PStr("Room2"))>>,
     Room2 |-> <<SPush("wait", PNum(0)),
                 SMake(<<DSprite("background", 320, -1, 0),
                         DSprite("player", 550, 0, 0),
                         DSprite("npc", 96, 0, 0)>>),
                 SPush("wait", PNum(2)),
                 SPush("anim", PAnim("npc", 2, FALSE)),
                 SPush("adventure", PAdventure("player", NoLink))>>]

\* the sample file as each of the two drafts of ScenarioState::update reads it
SampleBanks == {SampleToml(TRUE), SampleToml(FALSE)}

\* the units one run may construct
MaxUnitsOf(bank) == IF bank \in SampleBanks THEN MaxSampleUnits ELSE MaxUnits

ScriptBanks ==
    {BankWait, BankNest, BankWalk, BankAdventure, BankUnknown, BankMake, BankCollide,
     BankUnknownReplace, BankUnknownFirst} \cup BankFaults \cup BankEdges

-----------------------------------------------------------------------------
(* The frames *)

\* what a frame reads from outside: Scene::DeltaTime(), KeySpace.down(),
\* KeyLeft.pressed(), KeyRight.pressed(), and the steady clock's advance between
\* the two timer readings of WalkState::update
Inputs ==
    [dt : 1..MaxDelta, space : BOOLEAN, left : BOOLEAN, right : BOOLEAN,
     clock : {0, 1}]

NoInput == [dt |-> 0, space |-> FALSE, left |-> FALSE, right |-> FALSE, clock |-> 0]

NoWait == [id |-> 0, asked |-> 0, supplied |-> 0]

\* the wait unit's record of the time asked and the delta time its updates got
WaitLogAfter(log, top, dt, stack) ==
    IF top.kind = "wait" THEN [log EXCEPT !.supplied = @ + dt]
    ELSE IF stack # <<>> /\ Top(stack).kind = "wait"
    THEN [id |-> Top(stack).id, asked |-> Top(stack).m_time, supplied |-> 0]
    ELSE NoWait

\* the frame counter after one more frame
TicksAfter(n) == IF n < MaxTick THEN n + 1 ELSE MaxTick

\* the update counts after a frame that updated top and left stack: one more
\* for top if it is a scenario, none yet for a scenario the frame pushed, and
\* no entry for a unit that has left the stack
UpdatesAfter(counts, top, stack) ==
    LET counted == IF top.kind = "scenario"
                   THEN [counts EXCEPT ![top.id] = @ + 1]
                   ELSE counts
        scenarios == {stack[k].id : k \in {j \in DOMAIN stack : stack[j].kind = "scenario"}}
    IN [i \in scenarios |-> IF i \in DOMAIN counted THEN counted[i] ELSE 0]

\* a plausible slip: the constructor leaves the stack empty
InitWithoutInit ==
    /\ reader \in ScriptBanks
    /\ m_stack = <<>>
    /\ entities = EmptyEntitySet
    /\ status = "running"
    /\ nextId = 2
    /\ trace = <<>>
    /\ lastOp = "NONE"
    /\ lastTop = NoState
    /\ lastIn = NoInput
    /\ popped = {}
    /\ waitLog = NoWait
    /\ ticks = 0
    /\ updates = [i \in {1} |-> 0]

\* StateStack::StateStack: the stack holds ScenarioState("init").  Main.cpp
\* pushes it through push(), the earlier draft through m_stack.push_back, so
\* the first unit's onAfterPush is called in the one and not in the other.
Init ==
    /\ reader \in ScriptBanks
    /\ m_stack = <<ScenarioState(1, reader, "init")>>
    /\ entities = EmptyEntitySet
    /\ status = "running"
    /\ nextId = 2
    /\ trace \in {<<>>, <<Call("onAfterPush", ScenarioState(1, reader, "init"))>>}
    /\ lastOp = "NONE"
    /\ lastTop = NoState
    /\ lastIn = NoInput
    /\ popped = {}
    /\ waitLog = NoWait
    /\ ticks = 0
    /\ updates = [i \in {1} |-> 0]

\* the identities of the units a frame's calls exited
PoppedIn(calls) ==
    {calls[i].id : i \in {j \in DOMAIN calls : calls[j].hook = "onBeforePop"}}

\* the units a stack operation asks to remove: the unit that returned POP,
\* every stacked unit for REPLACE
PoppedBy(type, stack) ==
    CASE type = "POP" -> {stack[Len(stack)].id}
      [] type = "REPLACE" -> {stack[i].id : i \in DOMAIN stack}
      [] OTHER -> {}

\* a plausible slip: an empty stack is started again from "init"
UpdateEmptyRestarts ==
    /\ status = "running"
    /\ m_stack = <<>>
    /\ nextId <= MaxUnits
    /\ m_stack' = <<ScenarioState(nextId, reader, "init")>>
    /\ nextId' = nextId + 1
    /\ trace' = <<Call("onAfterPush", ScenarioState(nextId, reader, "init"))>>
    /\ lastOp' = "NONE"
    /\ lastTop' = NoState
    /\ lastIn' = NoInput
    /\ waitLog' = NoWait
    /\ ticks' = TicksAfter(ticks)
    /\ updates' = [i \in {nextId} |-> 0]
    /\ UNCHANGED <<entities, reader, status, popped>>

\* StateStack::update on an empty stack: return
UpdateEmpty ==
    /\ status = "running"
    /\ m_stack = <<>>
    /\ trace' = <<>>
    /\ lastOp' = "NONE"
    /\ lastTop' = NoState
    /\ lastIn' = NoInput
    /\ waitLog' = NoWait
    /\ ticks' = TicksAfter(ticks)
    /\ UNCHANGED <<m_stack, entities, reader, status, nextId, popped, updates>>

\* a plausible slip: after a POP the frame goes on and updates the unit the
\* pop has uncovered, with the same inputs
UpdateRunsUncovered(in) ==
    /\ status = "running"
    /\ m_stack # <<>>
    /\ \E r1 \in update(Top(m_stack), entities, reader, nextId, in) :
          \E m1 \in {AfterUpdate(m_stack, r1)} :
          LET again == (~r1.threw) /\ r1.type = "POP" /\ m1.stack # <<>>
          IN \E r \in (IF again
                        THEN update(Top(m1.stack), m1.entities, reader, nextId, in)
                        ELSE {r1}) :
             \E m2 \in {IF again THEN AfterUpdate(m1.stack, r) ELSE m1} :
             LET made == (~r.threw) /\ r.type \in {"PUSH", "REPLACE"}
                 m == [m2 EXCEPT !.trace = IF again THEN m1.trace \o m2.trace ELSE m2.trace]
             IN /\ made => nextId <= MaxUnitsOf(reader)
                /\ m_stack' = m.stack
                /\ entities' = m.entities
                /\ status' = IF m.threw THEN "error" ELSE "running"
                /\ nextId' = IF made THEN nextId + 1 ELSE nextId
                /\ trace' = m.trace
                /\ lastOp' = IF r.threw THEN "THROW" ELSE r.type
                /\ lastTop' = Top(m_stack)
                /\ lastIn' = in
                /\ popped' = popped \cup (IF r1.threw THEN {} ELSE PoppedBy(r1.type, m_stack))
                                    \cup (IF again /\ ~r.threw
                                          THEN PoppedBy(r.type, m1.stack) ELSE {})
                /\ waitLog' = WaitLogAfter(waitLog, Top(m_stack), in.dt, m.stack)
                /\ updates' = UpdatesAfter(IF again
                                           THEN UpdatesAfter(updates, Top(m_stack), m1.stack)
                                           ELSE updates,
                                           IF again THEN Top(m1.stack) ELSE Top(m_stack),
                                           m.stack)
    /\ ticks' = TicksAfter(ticks)
    /\ UNCHANGED reader

\* StateStack::update on a stack that is not empty
Update(in) ==
    /\ status = "running"
    /\ m_stack # <<>>
    /\ \E r \in update(Top(m_stack), entities, reader, nextId, in) :
          \E m \in {AfterUpdate(m_stack, r)} :
          LET made == (~r.threw) /\ r.type \in {"PUSH", "REPLACE"}
          IN /\ made => nextId <= MaxUnitsOf(reader)
             /\ m_stack' = m.stack
             /\ entities' = m.entities
             /\ status' = IF m.threw THEN "error" ELSE "running"
             /\ nextId' = IF made THEN nextId + 1 ELSE nextId
             /\ trace' = m.trace
             /\ lastOp' = IF r.threw THEN "THROW" ELSE r.type
             /\ lastTop' = Top(m_stack)
             /\ lastIn' = in
             /\ popped' = popped \cup (IF r.threw THEN {} ELSE PoppedBy(r.type, m_stack))
             /\ waitLog' = WaitLogAfter(waitLog, Top(m_stack), in.dt, m.stack)
             /\ updates' = UpdatesAfter(updates, Top(m_stack), m.stack)
    /\ ticks' = TicksAfter(ticks)
    /\ UNCHANGED reader

Next == UpdateEmpty \/ \E in \in Inputs : Update(in)

Spec == Init /\ [][Next]_vars

\* StateStack::StateStack on the article's scenario.toml
InitSample ==
    /\ reader \in SampleBanks
    /\ m_stack = <<ScenarioState(1, reader, "init")>>
    /\ entities = EmptyEntitySet
    /\ status = "running"
    /\ nextId = 2
    /\ trace \in {<<>>, <<Call("onAfterPush", ScenarioState(1, reader, "init"))>>}
    /\ lastOp = "NONE"
    /\ lastTop = NoState
    /\ lastIn = NoInput
    /\ popped = {}
    /\ waitLog = NoWait
    /\ ticks = 0
    /\ updates = [i \in {1} |-> 0]

\* the program on the article's scenario.toml
SpecSample == InitSample /\ [][Next]_vars

\* the declarations of the make steps before step k
DeclaredBefore(steps, k) ==
    UNION {{steps[j].make[i] : i \in DOMAIN steps[j].make} :
              j \in {i \in 1..(k - 1) : steps[i].isMake}}

\* step k pushes a wait, or an anim or a walk of positive speed on an entity
\* that an earlier make step declared with the components in needs
PlainPush(steps, k, needs) ==
    LET step == steps[k]
        entity == step.param.entity
        declared == {d \in DeclaredBefore(steps, k) : d.name = entity}
    IN /\ ~step.isMake /\ step.isPush
       /\ step.stateName \in {"wait", "anim", "walk"}
       /\ step.stateName = "walk" => step.param.speed > 0
       /\ step.stateName \in {"anim", "walk"} =>
             /\ declared # {}
             /\ "pos" \in needs[step.stateName] => \E d \in declared : d.hasPos
             /\ "image" \in needs[step.stateName] => \E d \in declared : d.hasImage

\* the entry scenario has only make steps and plain pushes
PlainScript(bank, needs) ==
    LET steps == Steps(bank, "init")
    IN \A k \in DOMAIN steps : steps[k].isMake \/ PlainPush(steps, k, needs)

\* the components a unit reads through HashTable::at
ComponentsRead == [anim |-> {"image"}, walk |-> {"pos", "image"}]

\* the claim asks for an entity that exists
NoComponents == [anim |-> {}, walk |-> {}]

\* the scripts whose entry scenario has only make steps and pushes of wait,
\* anim and walk on entities that exist
PlainBanks == {bank \in ScriptBanks : PlainScript(bank, NoComponents)}

\* StateStack::StateStack on one of these scripts
InitPlain ==
    /\ reader \in PlainBanks
    /\ m_stack = <<ScenarioState(1, reader, "init")>>
    /\ entities = EmptyEntitySet
    /\ status = "running"
    /\ nextId = 2
    /\ trace \in {<<>>, <<Call("onAfterPush", ScenarioState(1, reader, "init"))>>}
    /\ lastOp = "NONE"
    /\ lastTop = NoState
    /\ lastIn = NoInput
    /\ popped = {}
    /\ waitLog = NoWait
    /\ ticks = 0
    /\ updates = [i \in {1} |-> 0]

\* the program whose window stays open: while (System::Update()) runs
\* game.update() once per frame, so a frame that can be taken is taken
SpecPlain == InitPlain /\ [][Next]_vars /\ WF_vars(Next)

-----------------------------------------------------------------------------
(* Helpers of the properties *)

SetMax(S) == CHOOSE x \in S : \A y \in S : y <= x

\* the units pushed so far (identities follow the order of the pushes) whose
\* removal no stack operation has asked for
Live == (1..(nextId - 1)) \ popped

\* the positions of trace at which hook was called on the unit id
CallsOf(calls, hook, id) ==
    {k \in DOMAIN calls : calls[k].hook = hook /\ calls[k].id = id}

\* the positions of trace at which hook was called
CallsTo(calls, hook) == {k \in DOMAIN calls : calls[k].hook = hook}

\* the class a REPLACE or PUSH of the unit top asks for
AskedKind(top) ==
    CASE top.kind = "test" -> "test"
      [] top.kind = "adventure" -> "scenario"
      [] OTHER -> Steps(reader, top.scenarioName)[top.m_now].stateName

-----------------------------------------------------------------------------
(* C1: Stack LIFO.  After any sequence of frames the top of the stack is   *)
(* the most recently pushed unit whose removal has not been asked for (by  *)
(* its own POP or by a REPLACE), and the stack is empty exactly when no    *)
(* such unit is left.  It holds for every run, so for the runs whose units *)
(* return only PUSH and POP.                                               *)
StackLIFO ==
    IF Live = {} THEN m_stack = <<>>
    ELSE m_stack # <<>> /\ m_stack[Len(m_stack)].id = SetMax(Live)

\* a run of pushes and pops three deep: a pop has just uncovered a unit that
\* is not the last one constructed
StackLIFOWitness ==
    /\ lastOp = "POP"
    /\ Len(m_stack) >= 3
    /\ Cardinality(popped) >= 2
    /\ m_stack[Len(m_stack)].id < nextId - 2

(* C2: Replace result.  At the end of a frame whose top unit returned      *)
(* REPLACE(u) the stack has depth 1 and its only unit is u: the unit       *)
(* constructed in that frame, of the class the REPLACE asked for.          *)
ReplaceResult ==
    lastOp = "REPLACE" =>
        /\ Len(m_stack) = 1
        /\ m_stack[1].id = nextId - 1
        /\ m_stack[1].id \notin popped
        /\ m_stack[1].kind = AskedKind(lastTop)

\* a REPLACE applied to a stack three deep
ReplaceResultWitness ==
    /\ lastOp = "REPLACE"
    /\ Cardinality(CallsTo(trace, "onBeforePop")) >= 3
    /\ Len(m_stack) = 1

(* C3: Replace ordering.  In a frame that applies REPLACE(u) the calls     *)
(* are: the update of the top unit, then onBeforePop once for every unit   *)
(* that was on the stack, from the top down to the bottom, then            *)
(* onAfterPush of u.                                                       *)
ReplaceOrdering ==
    [][lastOp' = "REPLACE" =>
          LET n == Len(m_stack)
          IN /\ Len(trace') = n + 2
             /\ trace'[1] = [hook |-> "update", id |-> m_stack[n].id]
             /\ \A k \in 1..n :
                   trace'[1 + k] = [hook |-> "onBeforePop", id |-> m_stack[n + 1 - k].id]
             /\ trace'[n + 2] = [hook |-> "onAfterPush", id |-> nextId]]_vars

\* a REPLACE has exited three units and entered the new one
ReplaceOrderingWitness ==
    /\ lastOp = "REPLACE"
    /\ Len(trace) = 5
    /\ trace[5].hook = "onAfterPush"
    /\ trace[2].hook = "onBeforePop"

(* C4: One-frame lag.  A frame that applies PUSH or REPLACE calls the new  *)
(* unit's onAfterPush in that frame and does not call its update; the new  *)
(* unit is on top, and the next frame begins with its update.              *)
OneTickLag ==
    [][/\ lastOp' \in {"PUSH", "REPLACE"} =>
            /\ Cardinality(CallsOf(trace', "onAfterPush", nextId)) = 1
            /\ CallsOf(trace', "update", nextId) = {}
            /\ m_stack'[Len(m_stack')].id = nextId
       /\ lastOp \in {"PUSH", "REPLACE"} =>
            /\ m_stack[Len(m_stack)].id = nextId - 1
            /\ trace'[1] = [hook |-> "update", id |-> nextId - 1]]_vars

\* the first update of a unit, in the frame after the one that pushed it
OneTickLagWitness ==
    /\ lastTop.kind = "wait"
    /\ lastTop.id = nextId - 1
    /\ waitLog.supplied = lastIn.dt
    /\ trace[1] = [hook |-> "update", id |-> lastTop.id]

(* C5: In every frame on a stack that is not empty exactly one update is   *)
(* called, and it is the update of the unit that was on top when the frame *)
(* began.                                                                  *)
OneUpdatePerTick ==
    [][m_stack # <<>> =>
          /\ Cardinality(CallsTo(trace', "update")) = 1
          /\ CallsOf(trace', "update", m_stack[Len(m_stack)].id) # {}]_vars

\* a frame on a stack three deep in which only the top was updated
OneUpdatePerTickWitness ==
    /\ Len(m_stack) >= 3
    /\ lastOp = "NONE"
    /\ CallsTo(trace, "update") = {1}
    /\ trace[1].id = m_stack[Len(m_stack)].id

(* C6: Lower units are frozen.  In a frame, a unit below the top is not    *)
(* updated; its onBeforePop is called only after onBeforePop of every unit *)
(* above it in that frame; and unless it is exited it stays in its place   *)
(* with every member unchanged.                                            *)
LowerUnitsFrozen ==
    [][\A i \in 1..(Len(m_stack) - 1) :
          /\ CallsOf(trace', "update", m_stack[i].id) = {}
          /\ \A k \in CallsOf(trace', "onBeforePop", m_stack[i].id) :
                \A j \in (i + 1)..Len(m_stack) :
                   \E h \in CallsOf(trace', "onBeforePop", m_stack[j].id) : h < k
          /\ CallsOf(trace', "onBeforePop", m_stack[i].id) = {} =>
                /\ i <= Len(m_stack')
                /\ m_stack'[i] = m_stack[i]]_vars

\* a pop that uncovered a scenario which had made entities and advanced
LowerUnitsFrozenWitness ==
    /\ lastOp = "POP"
    /\ Len(m_stack) >= 2
    /\ m_stack[Len(m_stack)].kind = "scenario"
    /\ m_stack[Len(m_stack)].m_now > 1
    /\ m_stack[Len(m_stack)].m_nameSetMadeOnThis # {}

(* C7: Empty is terminal.  Once the stack is empty, a frame leaves it      *)
(* empty, calls no hook and leaves the EntitySet as it was.                *)
EmptyIsTerminal ==
    [][m_stack = <<>> =>
          /\ m_stack' = <<>>
          /\ trace' = <<>>
          /\ entities' = entities]_vars

\* a frame has run on the empty stack
EmptyIsTerminalWitness ==
    /\ m_stack = <<>>
    /\ trace = <<>>
    /\ popped # {}

-----------------------------------------------------------------------------
(* C8, as claimed: a wait unit returns POP on the first update at which    *)
(* the delta time supplied to its updates adds up to the duration asked or *)
(* more, and NONE on every earlier update.                                 *)
WaitPopsAtDuration ==
    lastTop.kind = "wait" =>
        /\ lastOp \in {"POP", "NONE"}
        /\ lastOp = "POP" <=> waitLog.supplied >= waitLog.asked

(* C8, amended: a wait unit returns POP on the first update at which the   *)
(* delta time supplied to its updates adds up to strictly more than the    *)
(* duration asked, and NONE on every earlier update; on the update at      *)
(* which the sum equals the duration exactly it returns NONE.              *)
WaitPopsAfterDuration ==
    lastTop.kind = "wait" =>
        /\ waitLog.id = lastTop.id
        /\ lastOp \in {"POP", "NONE"}
        /\ lastOp = "POP" <=> waitLog.supplied > waitLog.asked

\* the wait pops one frame after the frame in which the sum met the duration
WaitPopsAfterDurationWitness ==
    /\ lastTop.kind = "wait"
    /\ lastOp = "POP"
    /\ waitLog.supplied - lastIn.dt = waitLog.asked

(* C9: WaitState::update subtracts the frame's delta time from m_time and  *)
(* returns POP exactly when m_time is then below zero, NONE otherwise; the *)
(* unit that stays keeps the difference.                                   *)
WaitUpdateStep ==
    lastTop.kind = "wait" =>
        LET remaining == lastTop.m_time - lastIn.dt
        IN /\ lastOp \in {"POP", "NONE"}
           /\ lastOp = "POP" <=> remaining < 0
           /\ lastOp = "NONE" =>
                 /\ m_stack[Len(m_stack)].id = lastTop.id
                 /\ m_stack[Len(m_stack)].m_time = remaining

\* an update left exactly zero and the wait stayed
WaitUpdateStepWitness ==
    /\ lastTop.kind = "wait"
    /\ lastOp = "NONE"
    /\ m_stack[Len(m_stack)].m_time = 0

(* C10: WalkState moves x by linear interpolation over the duration        *)
(* |to - from| / speed: on an update at half the duration x is the         *)
(* midpoint, and on the update that returns POP x equals the target.       *)
WalkReachesTarget ==
    lastTop.kind = "walk" /\ lastOp \in {"POP", "NONE"} =>
        LET x == entities.posTable[lastTop.m_entityName].x
            timer == lastTop.m_timer
            elapsed == timer.duration
                          - Max(timer.remaining - lastIn.dt * lastTop.m_speed, 0)
        IN /\ 2 * elapsed = timer.duration => 2 * x = lastTop.m_from + lastTop.m_to
           /\ lastOp = "POP" => x = lastTop.m_to

\* the part of C10 that holds: the midpoint at half the duration
WalkMidpoint ==
    lastTop.kind = "walk" /\ lastOp \in {"POP", "NONE"} =>
        LET x == entities.posTable[lastTop.m_entityName].x
            timer == lastTop.m_timer
            elapsed == timer.duration
                          - Max(timer.remaining - lastIn.dt * lastTop.m_speed, 0)
        IN 2 * elapsed = timer.duration /\ timer.duration > 0
              => 2 * x = lastTop.m_from + lastTop.m_to

-----------------------------------------------------------------------------
\* every step of the script is a make batch
AllMake(steps) == \A i \in DOMAIN steps : steps[i].isMake

\* every name the store knows, in the name set or in a component table
StoreNames(ents) ==
    ents.nameSet \cup DOMAIN ents.posTable \cup DOMAIN ents.imageTable
        \cup DOMAIN ents.textTable

(* C11: A scenario unit whose script is N make batches returns NONE on     *)
(* each of its first N updates and POP on update N + 1; and every scenario *)
(* unit whose iterator is at the end (m_now = m_end) returns POP.          *)
ScenarioMakeBatches ==
    [][m_stack # <<>> /\ status = "running" /\ Top(m_stack).kind = "scenario" =>
          LET top == Top(m_stack)
              steps == Steps(reader, top.scenarioName)
              k == updates[top.id] + 1
          IN /\ AllMake(steps) =>
                   /\ k <= Len(steps) + 1
                   /\ k <= Len(steps) => lastOp' = "NONE"
                   /\ k = Len(steps) + 1 => lastOp' = "POP"
             /\ top.m_now = top.m_end => lastOp' = "POP"]_vars

\* a script of three make batches has returned POP on its fourth update
ScenarioMakeBatchesWitness ==
    /\ lastOp = "POP"
    /\ lastTop.kind = "scenario"
    /\ AllMake(Steps(reader, lastTop.scenarioName))
    /\ Len(Steps(reader, lastTop.scenarioName)) = 3
    /\ lastTop.m_now = 4
    /\ ticks = MaxTick

(* C12: In a frame that exits scenario units (the top one by POP, every    *)
(* stacked one by REPLACE), no name that such a unit made through its make *)
(* steps is left in the name set or in a component table when the frame    *)
(* ends, whatever units were pushed above it since it made them.           *)
ScenarioExitCleans ==
    [][lastOp' \in {"POP", "REPLACE"} =>
          \A i \in DOMAIN m_stack :
             (/\ m_stack[i].kind = "scenario"
              /\ (lastOp' = "REPLACE" \/ i = Len(m_stack)))
                => m_stack[i].m_nameSetMadeOnThis \cap StoreNames(entities') = {}]_vars

\* a REPLACE has exited three scenario units, the upper ones pushed after
\* the lower ones had made their entities
ScenarioExitCleansWitness ==
    /\ lastOp = "REPLACE"
    /\ Len(trace) = 5
    /\ lastTop.kind = "scenario"
    /\ lastTop.m_nameSetMadeOnThis # {}
    /\ lastTop.id > 2
    /\ StoreNames(entities) = {}

(* C13, as claimed: the frame that pushes a speak unit on entity E adds    *)
(* exactly one name to the store, E + "_speak", and the frame in which the *)
(* speak unit returns POP removes exactly that name and no other; so for   *)
(* every speak unit, also a later one on the same entity.                  *)
SpeakTransient ==
    [][/\ (lastOp' = "PUSH" /\ status' = "running" /\ Top(m_stack').kind = "speak") =>
            /\ entities'.nameSet \ entities.nameSet
                  = {SpeakName(Top(m_stack').m_entityName)}
            /\ entities.nameSet \subseteq entities'.nameSet
       /\ (m_stack # <<>> /\ Top(m_stack).kind = "speak" /\ lastOp' = "POP") =>
            /\ entities.nameSet \ entities'.nameSet
                  = {SpeakName(Top(m_stack).m_entityName)}
            /\ entities'.nameSet \subseteq entities.nameSet]_vars

\* the part of C13 that holds: when no entity of the name E + "_speak" is in
\* the store as the speak unit enters, the enter adds exactly that name, with
\* a position and a text, and the exit removes exactly that name and leaves
\* every other entity as it was
SpeakTransientFresh ==
    [][/\ (/\ lastOp' = "PUSH" /\ status' = "running"
            /\ Top(m_stack').kind = "speak"
            /\ SpeakName(Top(m_stack').m_entityName) \notin StoreNames(entities)) =>
            /\ entities'.nameSet \ entities.nameSet
                  = {SpeakName(Top(m_stack').m_entityName)}
            /\ entities.nameSet \subseteq entities'.nameSet
       /\ (m_stack # <<>> /\ Top(m_stack).kind = "speak" /\ lastOp' = "POP") =>
            /\ SpeakName(Top(m_stack).m_entityName) \in entities.nameSet
            /\ entities' = erase(entities, SpeakName(Top(m_stack).m_entityName))]_vars

\* a second speak unit on the same entity has come and gone
SpeakTransientFreshWitness ==
    /\ lastOp = "POP"
    /\ lastTop.kind = "speak"
    /\ lastTop.m_text = "again"
    /\ SpeakName(lastTop.m_entityName) \notin StoreNames(entities)
    /\ lastTop.m_entityName \in entities.nameSet

-----------------------------------------------------------------------------
(* C14, as claimed: with the entry scenario [ make "a" with a position ;   *)
(* push wait 1.0 ], after the first frame the entity "a" is in the store   *)
(* and the stack has depth 2.                                              *)
FirstTickDepthTwo ==
    (reader = BankWait /\ ticks = 1) =>
        /\ "a" \in entities.nameSet
        /\ "a" \in DOMAIN entities.posTable
        /\ Len(m_stack) = 2

(* C14, amended: with that entry scenario, after the first frame the       *)
(* entity "a" is in the store with its position and the stack has depth 1: *)
(* it holds the scenario unit alone, the wait is not pushed yet.           *)
FirstTickDepthOne ==
    (reader = BankWait /\ ticks = 1) =>
        /\ "a" \in entities.nameSet
        /\ "a" \in DOMAIN entities.posTable
        /\ entities.posTable["a"] = [x |-> 0, y |-> 0, z |-> 0]
        /\ Len(m_stack) = 1
        /\ m_stack[1].kind = "scenario"
        /\ m_stack[1].id = 1

\* the first frame of that scenario has run: the make step, which returned NONE
FirstTickDepthOneWitness ==
    /\ reader = BankWait
    /\ ticks = 1
    /\ lastOp = "NONE"
    /\ lastTop.kind = "scenario"
    /\ lastTop.m_now = 1
    /\ "a" \in entities.nameSet

(* C15, as claimed: with the entry scenario [ make "a" ; push wait 1.0 ],  *)
(* after the second frame the stack is the scenario unit and the wait unit *)
(* above it; the wait returns POP on the update at which at least 1.0 s    *)
(* have been supplied, leaving depth 1; the next frame updates the         *)
(* scenario unit, whose iterator is at the end, and it returns POP,        *)
(* leaving depth 0; a frame on the empty stack does nothing, and "a" is    *)
(* not in the store.                                                       *)
WaitScenarioTrace ==
    reader = BankWait =>
        /\ ticks = 2 =>
              /\ Len(m_stack) = 2
              /\ m_stack[1].kind = "scenario" /\ m_stack[1].id = 1
              /\ m_stack[2].kind = "wait"
        /\ lastTop.kind = "wait" =>
              /\ lastOp = "POP" <=> waitLog.supplied >= waitLog.asked
              /\ lastOp = "POP" =>
                    /\ Len(m_stack) = 1
                    /\ m_stack[1].m_now = m_stack[1].m_end
        /\ (lastTop.kind = "scenario" /\ lastTop.m_now = lastTop.m_end) =>
              /\ lastOp = "POP"
              /\ m_stack = <<>>
        /\ m_stack = <<>> =>
              /\ "a" \notin StoreNames(entities)
              /\ lastOp = "NONE" => trace = <<>>

(* C15, amended: the same run, but the wait returns POP on the update at   *)
(* which more than 1.0 s have been supplied; when exactly 1.0 s has been   *)
(* supplied it stays for one more frame.                                   *)
WaitScenarioTraceAfter ==
    reader = BankWait =>
        /\ ticks = 2 =>
              /\ Len(m_stack) = 2
              /\ m_stack[1].kind = "scenario" /\ m_stack[1].id = 1
              /\ m_stack[2].kind = "wait"
        /\ lastTop.kind = "wait" =>
              /\ waitLog.asked = 2
              /\ lastOp = "POP" <=> waitLog.supplied > waitLog.asked
              /\ lastOp = "POP" =>
                    /\ Len(m_stack) = 1
                    /\ m_stack[1].m_now = m_stack[1].m_end
              /\ lastOp # "POP" => lastOp = "NONE" /\ Len(m_stack) = 2
        /\ (lastTop.kind = "scenario" /\ lastTop.m_now = lastTop.m_end) =>
              /\ lastOp = "POP"
              /\ m_stack = <<>>
        /\ m_stack = <<>> =>
              /\ "a" \notin StoreNames(entities)
              /\ lastOp = "NONE" => trace = <<>>

\* the run has come to its end and one more frame has passed on the empty
\* stack: both units are gone and so is "a"
WaitScenarioTraceAfterWitness ==
    /\ reader = BankWait
    /\ m_stack = <<>>
    /\ popped = {1, 2}
    /\ lastOp = "NONE"
    /\ lastTop = NoState
    /\ entities = EmptyEntitySet

-----------------------------------------------------------------------------
(* C16: Store invariant.  In every reachable state, every name that has an *)
(* entry in posTable, imageTable or textTable is a member of nameSet.      *)
TablesWithinNameSet ==
    /\ DOMAIN entities.posTable \subseteq entities.nameSet
    /\ DOMAIN entities.imageTable \subseteq entities.nameSet
    /\ DOMAIN entities.textTable \subseteq entities.nameSet

\* a speak unit is on top with its text in the store, next to declared
\* entities of which one has a sprite, after an entity has been erased
TablesWithinNameSetWitness ==
    /\ m_stack # <<>>
    /\ Top(m_stack).kind = "speak"
    /\ SpeakName(Top(m_stack).m_entityName) \in DOMAIN entities.textTable
    /\ DOMAIN entities.imageTable # {}
    /\ Cardinality(entities.nameSet) >= 3
    /\ popped # {}

\* the names the onBeforePop of a speak or scenario unit erases
ErasedBy(unit) ==
    CASE unit.kind = "speak" -> {SpeakName(unit.m_entityName)}
      [] unit.kind = "scenario" -> unit.m_nameSetMadeOnThis
      [] OTHER -> {}

\* table after is table before without the names of erased, the rest as it was
TableWithout(after, before, erased) ==
    /\ DOMAIN after = (DOMAIN before) \ erased
    /\ \A n \in DOMAIN after : after[n] = before[n]

(* C17: EntitySet::erase removes the name from nameSet and from posTable,  *)
(* imageTable and textTable together and leaves the membership and the     *)
(* components of every other name as they were; erasing a name that is not *)
(* in the store changes nothing.  Seen on the frames in which a speak or a *)
(* scenario unit returns POP: the store changes by those erases alone.     *)
EraseFrame ==
    [][(/\ m_stack # <<>>
        /\ Top(m_stack).kind \in {"speak", "scenario"}
        /\ lastOp' = "POP") =>
          LET erased == ErasedBy(Top(m_stack))
          IN /\ entities'.nameSet = entities.nameSet \ erased
             /\ TableWithout(entities'.posTable, entities.posTable, erased)
             /\ TableWithout(entities'.imageTable, entities.imageTable, erased)
             /\ TableWithout(entities'.textTable, entities.textTable, erased)
             /\ erased \cap StoreNames(entities) = {} => entities' = entities]_vars

\* a speak unit has erased its text, which had a position and a text
\* component, and entities with other components are still in the store
EraseFrameWitness ==
    /\ lastOp = "POP"
    /\ lastTop.kind = "speak"
    /\ SpeakName(lastTop.m_entityName) \notin StoreNames(entities)
    /\ DOMAIN entities.imageTable # {}
    /\ DOMAIN entities.textTable # {}
    /\ Cardinality(entities.nameSet) >= 3

-----------------------------------------------------------------------------
\* what an update of the scenario unit top did with the step it was at, seen
\* from the frame's result: a batch create, a push or a replace of a unit of
\* the class the step names
DidMake(top, step, op, entsBefore, entsAfter, stackAfter, depth) ==
    /\ op = "NONE"
    /\ step.isMake
    /\ entsAfter = makeEntities(entsBefore, step.make)
    /\ stackAfter[depth].m_nameSetMadeOnThis
          = top.m_nameSetMadeOnThis \cup MadeNames(step.make)

DidPush(step, op, stackAfter, depth) ==
    /\ op = "PUSH"
    /\ step.isPush
    /\ Len(stackAfter) = depth + 1
    /\ stackAfter[depth + 1].kind = step.stateName

DidReplace(step, op, stackAfter) ==
    /\ op = "REPLACE"
    /\ step.isReplace
    /\ Len(stackAfter) = 1
    /\ stackAfter[1].kind = step.stateName

(* C18, as claimed: an update of a scenario unit whose iterator is not at  *)
(* the end consumes exactly one step (m_now moves on by one) and does      *)
(* exactly one of: the batch create of a make step, returning NONE; a PUSH *)
(* of a unit built from the step; a REPLACE by a unit built from the step. *)
(* An update that ends in the error of C19 returns no operation and is not *)
(* counted.                                                                *)
ScenarioStepOneOfThree ==
    [][(/\ m_stack # <<>> /\ status = "running"
        /\ Top(m_stack).kind = "scenario"
        /\ Top(m_stack).m_now # Top(m_stack).m_end
        /\ lastOp' # "THROW") =>
          LET top == Top(m_stack)
              depth == Len(m_stack)
              step == Steps(reader, top.scenarioName)[top.m_now]
          IN /\ lastOp' \in {"NONE", "PUSH"} =>
                   m_stack'[depth].m_now = top.m_now + 1
             /\ \/ DidMake(top, step, lastOp', entities, entities', m_stack', depth)
                \/ DidPush(step, lastOp', m_stack', depth)
                \/ DidReplace(step, lastOp', m_stack')]_vars

\* the part of C18 that holds: for a step that has a make, a push or a
\* replace key, the update consumes the step and does exactly one of the
\* three, unless the name of the push or replace is not registered
ScenarioStepKeyed ==
    [][(/\ m_stack # <<>> /\ status = "running"
        /\ Top(m_stack).kind = "scenario"
        /\ Top(m_stack).m_now # Top(m_stack).m_end) =>
          LET top == Top(m_stack)
              depth == Len(m_stack)
              step == Steps(reader, top.scenarioName)[top.m_now]
          IN /\ lastOp' \in {"NONE", "PUSH", "THROW"} =>
                   m_stack'[depth].m_now = top.m_now + 1
             /\ (step.isMake \/ step.isPush \/ step.isReplace) =>
                   \/ DidMake(top, step, lastOp', entities, entities', m_stack', depth)
                   \/ DidPush(step, lastOp', m_stack', depth)
                   \/ DidReplace(step, lastOp', m_stack')
                   \/ lastOp' = "THROW" /\ step.stateName \notin MAKE_TABLE]_vars

-----------------------------------------------------------------------------
\* the step the scenario unit is at
StepAt(unit) == Steps(reader, unit.scenarioName)[unit.m_now]

\* a push or replace step (the make key is looked at first) whose name
\* MAKE_TABLE lacks
UnknownName(step) ==
    /\ ~step.isMake
    /\ step.isPush \/ step.isReplace
    /\ step.stateName \notin MAKE_TABLE

\* a step with none of the keys make, push, replace
Malformed(step) == ~step.isMake /\ ~step.isPush /\ ~step.isReplace

(* C19: When a push or replace step names a type MAKE_TABLE lacks, the     *)
(* update of the scenario unit ends in an error that ends the run: no unit *)
(* is constructed, no stack operation is applied (no hook is called), the  *)
(* stack keeps the units it had and the store is as it was; and after the  *)
(* error no frame runs.                                                    *)
UnknownNameIsFatal ==
    [][/\ (/\ m_stack # <<>> /\ status = "running"
            /\ Top(m_stack).kind = "scenario"
            /\ Top(m_stack).m_now # Top(m_stack).m_end
            /\ UnknownName(StepAt(Top(m_stack)))) =>
              /\ status' = "error"
              /\ lastOp' = "THROW"
              /\ nextId' = nextId
              /\ trace' = <<Call("update", Top(m_stack))>>
              /\ Len(m_stack') = Len(m_stack)
              /\ \A i \in DOMAIN m_stack :
                    /\ m_stack'[i].id = m_stack[i].id
                    /\ m_stack'[i].kind = m_stack[i].kind
                    /\ i < Len(m_stack) => m_stack'[i] = m_stack[i]
              /\ entities' = entities
       /\ status = "error" => UNCHANGED vars]_vars

\* a replace by an unregistered name has ended the run with two units on the
\* stack and their entities in the store
UnknownNameIsFatalWitness ==
    /\ status = "error"
    /\ lastOp = "THROW"
    /\ lastTop.kind = "scenario"
    /\ StepAt(lastTop).isReplace
    /\ Len(m_stack) = 2
    /\ Cardinality(entities.nameSet) = 2

(* C20, as claimed: an update of a scenario unit that is at a step with    *)
(* none of the keys make, push, replace, or at a push or replace step with *)
(* a name MAKE_TABLE lacks, ends in an error; it never returns NONE and    *)
(* lets the scenario go on with the next step.                             *)
BadStepIsNeverSkipped ==
    (/\ lastTop.kind = "scenario"
     /\ lastTop.m_now # lastTop.m_end
     /\ Malformed(StepAt(lastTop)) \/ UnknownName(StepAt(lastTop))) =>
        /\ lastOp = "THROW"
        /\ status = "error"

-----------------------------------------------------------------------------
\* the unit's entity lacks a component the hook onAfterPush of the unit reads
LacksOnEnter(unit, ents) ==
    CASE unit.kind = "speak" -> unit.m_entityName \notin DOMAIN ents.posTable
      [] unit.kind = "walk" -> \/ unit.m_entityName \notin DOMAIN ents.posTable
                               \/ unit.m_entityName \notin DOMAIN ents.imageTable
      [] unit.kind = "anim" -> unit.m_entityName \notin DOMAIN ents.imageTable
      [] OTHER -> FALSE

\* the unit's entity lacks a component the update of the unit reads first
LacksOnUpdate(unit, ents) ==
    CASE unit.kind = "walk" -> unit.m_entityName \notin DOMAIN ents.posTable
      [] unit.kind = "adventure" -> \/ unit.m_entityName \notin DOMAIN ents.posTable
                                    \/ unit.m_entityName \notin DOMAIN ents.imageTable
      [] OTHER -> FALSE

\* the link targets of an adventure unit that have no position
LinksWithoutPos(unit, ents) == (DOMAIN unit.m_link) \ DOMAIN ents.posTable

\* the two stores have entries for the same names
SameNames(a, b) ==
    /\ a.nameSet = b.nameSet
    /\ DOMAIN a.posTable = DOMAIN b.posTable
    /\ DOMAIN a.imageTable = DOMAIN b.imageTable
    /\ DOMAIN a.textTable = DOMAIN b.textTable

-----------------------------------------------------------------------------
\* order visits every positioned entity once, by ascending z and, for equal
\* z, by ascending name
IsDepthOrder(order, ents) ==
    /\ {order[i] : i \in DOMAIN order} = Positioned(ents)
    /\ Len(order) = Cardinality(Positioned(ents))
    /\ \A i, j \in DOMAIN order : i < j => DrawsBefore(ents, order[i], order[j])

(* C22, as claimed: the render pass visits the entities that have a        *)
(* position by ascending z and, for equal z, by ascending name; the order  *)
(* is fixed by the contents of the store.  Stated of both render passes of *)
(* the repository, for every store the program comes to.                   *)
DrawOrderByDepth ==
    /\ IsDepthOrder(drawEntities(entities), entities)
    /\ \A order \in Game_draw(entities) : IsDepthOrder(order, entities)

\* the part of C22 that holds: drawEntities, which sorts its draw list
DrawEntitiesByDepth == IsDepthOrder(drawEntities(entities), entities)

-----------------------------------------------------------------------------
(* C23: before the first tick the stack has depth 1; its only unit is a    *)
(* scenario interpreter bound to "init" that stands at its first step,     *)
(* has made no entity and has not been updated.                            *)
InitialStack ==
    ticks = 0 =>
        /\ Len(m_stack) = 1
        /\ Top(m_stack).kind = "scenario"
        /\ Top(m_stack).scenarioName = "init"
        /\ Top(m_stack).m_now = 1
        /\ Top(m_stack).m_nameSetMadeOnThis = {}
        /\ updates = [i \in {Top(m_stack).id} |-> 0]

\* the state after construction of a file whose "init" has several steps
InitialStackWitness ==
    /\ ticks = 0
    /\ status = "running"
    /\ Len(m_stack) = 1
    /\ Top(m_stack).m_end > 2

-----------------------------------------------------------------------------
\* what the update of the scenario unit top did is what the step at its
\* position asks for: the batch of a make step, the push or the replace of
\* the unit the step names, the error of a name MAKE_TABLE lacks, or nothing
\* for a table without keys
ExecutedStep(top, step, op, entsBefore, entsAfter, stackAfter, depth) ==
    \/ DidMake(top, step, op, entsBefore, entsAfter, stackAfter, depth)
    \/ ~step.isMake /\ DidPush(step, op, stackAfter, depth)
    \/ ~step.isMake /\ ~step.isPush /\ DidReplace(step, op, stackAfter)
    \/ UnknownName(step) /\ op = "THROW"
    \/ Malformed(step) /\ op = "NONE" /\ entsAfter = entsBefore

(* C24: Scenario resumption.  While a scenario unit is on the stack below  *)
(* the top, its step position and its owned set do not change.  A scenario *)
(* unit that a pop has uncovered stands right after a push step, and its   *)
(* next update executes the step at that position.  The n-th update of a   *)
(* scenario unit executes the n-th step of its script: every scenario unit *)
(* on the stack stands at the step after the number of its updates, so no  *)
(* step is executed twice or out of order.                                 *)
ScenarioResumes ==
    [][/\ \A i \in 1..(Len(m_stack) - 1) :
            (/\ m_stack[i].kind = "scenario"
             /\ i <= Len(m_stack')
             /\ m_stack'[i].id = m_stack[i].id) =>
                /\ m_stack'[i].m_now = m_stack[i].m_now
                /\ m_stack'[i].m_nameSetMadeOnThis = m_stack[i].m_nameSetMadeOnThis
       /\ \A i \in DOMAIN m_stack' :
            m_stack'[i].kind = "scenario" =>
                m_stack'[i].m_now = updates'[m_stack'[i].id] + 1
       /\ (/\ m_stack # <<>> /\ status = "running"
            /\ Top(m_stack).kind = "scenario"
            /\ Top(m_stack).m_now # Top(m_stack).m_end) =>
              LET top == Top(m_stack)
                  step == Steps(reader, top.scenarioName)[updates[top.id] + 1]
              IN ExecutedStep(top, step, lastOp', entities, entities', m_stack',
                              Len(m_stack))
       /\ (/\ m_stack # <<>> /\ status = "running"
            /\ lastOp = "POP"
            /\ Top(m_stack).kind = "scenario") =>
              LET top == Top(m_stack)
                  steps == Steps(reader, top.scenarioName)
              IN /\ top.m_now >= 2
                 /\ steps[top.m_now - 1].isPush
                 /\ ~steps[top.m_now - 1].isMake
                 /\ IF top.m_now = top.m_end THEN lastOp' = "POP"
                    ELSE ExecutedStep(top, steps[top.m_now], lastOp', entities,
                                      entities', m_stack', Len(m_stack))]_vars

\* scenario "B" was uncovered by the pop of the wait its second step pushed,
\* and its next update has run its third step, the push of a speak; the two
\* scenarios below it stand where they stood
ScenarioResumesWitness ==
    /\ lastTop.kind = "scenario"
    /\ lastTop.scenarioName = "B"
    /\ lastTop.m_now = 3
    /\ lastOp = "PUSH"
    /\ Len(m_stack) = 4
    /\ Top(m_stack).kind = "speak"
    /\ m_stack[3].m_now = 4
    /\ m_stack[2].m_now = 3
    /\ m_stack[1].m_now = 3

-----------------------------------------------------------------------------
(* C25: A frame that pushes an anim unit whose entity has a sprite sets    *)
(* the sprite's frame (imagePos) and hidden flag to the unit's parameters  *)
(* in onAfterPush and changes nothing else of the store.  The first update *)
(* of an anim unit, in the next frame, returns POP whatever the inputs     *)
(* are: the frame's calls are its update and its onBeforePop, the unit     *)
(* leaves the stack, and the store is as it was before the frame.          *)
AnimOneFrame ==
    [][/\ (/\ lastOp' = "PUSH"
            /\ status' = "running"
            /\ Top(m_stack').kind = "anim") =>
              LET self == Top(m_stack')
                  imageC == entities'.imageTable[self.m_entityName]
              IN /\ imageC.imagePos = self.m_imagePos
                 /\ imageC.isHidden = self.m_isHidden
                 /\ entities' = [entities EXCEPT
                                  !.imageTable[self.m_entityName].imagePos = self.m_imagePos,
                                  !.imageTable[self.m_entityName].isHidden = self.m_isHidden]
                 /\ trace'[Len(trace')] = Call("onAfterPush", self)
       /\ (/\ m_stack # <<>> /\ status = "running"
            /\ Top(m_stack).kind = "anim") =>
              /\ lastOp = "PUSH"
              /\ lastOp' = "POP"
              /\ status' = "running"
              /\ trace' = <<Call("update", Top(m_stack)), Call("onBeforePop", Top(m_stack))>>
              /\ m_stack' = SubSeq(m_stack, 1, Len(m_stack) - 1)
              /\ entities' = entities]_vars

\* the anim of the walk script has popped; it had hidden the sprite of "p"
AnimOneFrameWitness ==
    /\ lastTop.kind = "anim"
    /\ lastOp = "POP"
    /\ lastTop.m_isHidden
    /\ entities.imageTable[lastTop.m_entityName].isHidden
    /\ entities.imageTable[lastTop.m_entityName].imagePos = lastTop.m_imagePos

-----------------------------------------------------------------------------
\* the frame updates an adventure unit whose entity has position and sprite
AdventureUpdates ==
    /\ m_stack # <<>>
    /\ status = "running"
    /\ Top(m_stack).kind = "adventure"
    /\ ~LacksOnUpdate(Top(m_stack), entities)

(* C26: After every update of an adventure unit the x of its entity is in  *)
(* [0, 640], whatever the keys and the delta time of the frame are and     *)
(* wherever the entity stood before, inside the interval or outside it.    *)
AdventureStaysInRoom ==
    [][AdventureUpdates =>
          LET x == entities'.posTable[Top(m_stack).m_entityName].x
          IN AdventureMinX <= x /\ x <= AdventureMaxX]_vars

\* the entity was declared at 700; the first update of the unit, with the
\* left key down for half a second, has left it at 640
AdventureStaysInRoomWitness ==
    /\ lastTop.kind = "adventure"
    /\ reader = BankEdge(700, [sign |-> "Read"])
    /\ ticks = 3
    /\ lastIn.left /\ lastIn.dt = 1
    /\ entities.posTable[lastTop.m_entityName].x = AdventureMaxX

\* the linked targets that are nearer than 60 to the entity of unit in ents
NearTargets(unit, ents) ==
    {targetName \in DOMAIN unit.m_link :
        Abs(ents.posTable[unit.m_entityName].x - ents.posTable[targetName].x) < 60}

(* C27: An update of an adventure unit, every link target of which has a   *)
(* position, returns PUSH exactly when the confirm key went down in the    *)
(* frame and some link target's x is less than 60 away from the x the      *)
(* entity has after the move; the unit it pushes is a new scenario unit at *)
(* the first step of the scenario of such a target.  In every other case   *)
(* it returns NONE and the stack stays as it is.  It never returns POP or  *)
(* REPLACE.                                                                *)
AdventurePushesLink ==
    [][(AdventureUpdates /\ LinksWithoutPos(Top(m_stack), entities) = {}) =>
          LET top == Top(m_stack)
              near == NearTargets(top, entities')
              fires == lastIn'.space /\ near # {}
          IN /\ lastOp' \in {"PUSH", "NONE"}
             /\ lastOp' = "PUSH" <=> fires
             /\ fires =>
                   /\ Len(m_stack') = Len(m_stack) + 1
                   /\ m_stack'[Len(m_stack)] = top
                   /\ Top(m_stack').kind = "scenario"
                   /\ Top(m_stack').id = nextId
                   /\ Top(m_stack').m_now = 1
                   /\ Top(m_stack').scenarioName \in {top.m_link[t] : t \in near}
             /\ ~fires => m_stack' = m_stack]_vars

\* the entity stands at the wall, the sign exactly 60 away: the confirm key
\* went down and the update returned NONE
AdventurePushesLinkWitness ==
    /\ lastTop.kind = "adventure"
    /\ lastOp = "NONE"
    /\ lastIn.space
    /\ DOMAIN lastTop.m_link = {"sign"}
    /\ Abs(entities.posTable[lastTop.m_entityName].x - entities.posTable["sign"].x) = 60

-----------------------------------------------------------------------------
\* the names the units of stack have put into the store: what the scenario
\* units made, and the text entity of every speak unit
OwnedOnStack(stack) ==
    UNION {CASE stack[i].kind = "scenario" -> stack[i].m_nameSetMadeOnThis
             [] stack[i].kind = "speak" -> {SpeakName(stack[i].m_entityName)}
             [] OTHER -> {}
           : i \in DOMAIN stack}

(* C28: In a frame that applies REPLACE, the store with which the new      *)
(* unit's onAfterPush starts has no entry, in the name set or in a         *)
(* component table, for a name made by a scenario unit that was on the     *)
(* stack or for the text entity of a speak unit that was on the stack.     *)
(* The onAfterPush of the new unit writes nothing here (it is a scenario   *)
(* or test unit, or it fails at its first read), so that store is the      *)
(* store after the frame.                                                  *)
ReplaceClearsOwned ==
    [][lastOp' = "REPLACE" =>
          /\ Top(m_stack').kind \in {"scenario", "test"} \/ status' = "error"
          /\ OwnedOnStack(m_stack) \cap StoreNames(entities') = {}
          /\ trace'[Len(trace')].hook = "onAfterPush"
          /\ \A i \in DOMAIN m_stack :
                \E k \in CallsOf(trace', "onBeforePop", m_stack[i].id) :
                   k < Len(trace')]_vars

\* the test unit on top of scenario "C" has replaced itself: "c", which the
\* scenario had made, is not in the store the new test unit starts with
ReplaceClearsOwnedWitness ==
    /\ lastOp = "REPLACE"
    /\ status = "running"
    /\ lastTop.kind = "test"
    /\ Len(trace) = 4
    /\ Top(m_stack).kind = "test"
    /\ "c" \notin StoreNames(entities)

-----------------------------------------------------------------------------
(* C29: The update of a scenario unit that is at a make step returns NONE  *)
(* and leaves the stack as deep as it was; after it every name the batch   *)
(* declares is in the name set of the store and in the unit's              *)
(* m_nameSetMadeOnThis, and has an entry in posTable, imageTable and       *)
(* textTable for each of pos, image and text its table provides.           *)
MakeStepDeclaresAll ==
    [][(/\ m_stack # <<>> /\ status = "running"
        /\ Top(m_stack).kind = "scenario"
        /\ Top(m_stack).m_now # Top(m_stack).m_end
        /\ StepAt(Top(m_stack)).isMake) =>
          LET decls == StepAt(Top(m_stack)).make
              depth == Len(m_stack)
          IN /\ lastOp' = "NONE"
             /\ status' = "running"
             /\ Len(m_stack') = depth
             /\ m_stack'[depth].id = Top(m_stack).id
             /\ \A i \in DOMAIN decls :
                   LET name == decls[i].name
                   IN /\ name \in entities'.nameSet
                      /\ name \in m_stack'[depth].m_nameSetMadeOnThis
                      /\ decls[i].hasPos => name \in DOMAIN entities'.posTable
                      /\ decls[i].hasImage => name \in DOMAIN entities'.imageTable
                      /\ decls[i].hasText => name \in DOMAIN entities'.textTable]_vars

\* the first step of scenario "A" has made "b" with a position and "t" with
\* a position and a text
MakeStepDeclaresAllWitness ==
    /\ lastOp = "NONE"
    /\ lastTop.kind = "scenario"
    /\ lastTop.scenarioName = "A"
    /\ lastTop.m_now = 1
    /\ Top(m_stack).m_nameSetMadeOnThis = {"b", "t"}
    /\ "t" \in DOMAIN entities.textTable
    /\ "t" \in DOMAIN entities.posTable

-----------------------------------------------------------------------------
\* the identities of the units of stack
Ids(stack) == {stack[i].id : i \in DOMAIN stack}

\* the hooks of one frame: a unit that comes onto the stack is new, gets one
\* onAfterPush and no update; a unit that leaves gets one onBeforePop, after
\* its update if it was updated; a unit that stays gets neither; and every
\* call of the frame is on a unit that is on the stack when it is made
LifecycleStep ==
    LET before == Ids(m_stack)
        after == Ids(m_stack')
    IN /\ \A id \in after \ before :
             /\ id = nextId
             /\ Cardinality(CallsOf(trace', "onAfterPush", id)) = 1
             /\ CallsOf(trace', "update", id) = {}
             /\ CallsOf(trace', "onBeforePop", id) = {}
       /\ \A id \in before \ after :
             /\ Cardinality(CallsOf(trace', "onBeforePop", id)) = 1
             /\ CallsOf(trace', "onAfterPush", id) = {}
             /\ \A u \in CallsOf(trace', "update", id) :
                   \A p \in CallsOf(trace', "onBeforePop", id) : u < p
       /\ \A id \in before \cap after :
             /\ CallsOf(trace', "onAfterPush", id) = {}
             /\ CallsOf(trace', "onBeforePop", id) = {}
       /\ \A k \in DOMAIN trace' :
             /\ trace'[k].hook \in {"update", "onBeforePop"} => trace'[k].id \in before
             /\ trace'[k].hook = "onAfterPush" =>
                   /\ trace'[k].id \in after \ before
                   /\ k = Len(trace')

(* C30, as claimed: Lifecycle pairing.  Every unit that is ever on the     *)
(* stack, the "init" unit of the constructor among them, has onAfterPush   *)
(* called once, before its first update, and onBeforePop called once, when *)
(* it is removed and after its last update; no hook is called on a unit    *)
(* that is not on the stack.                                               *)
LifecyclePairing ==
    /\ \A i \in DOMAIN m_stack :
          Cardinality(CallsOf(trace, "onAfterPush", m_stack[i].id)) = 1
    /\ [][LifecycleStep]_vars

\* the part of C30 that holds: the pairing for every unit a frame puts on
\* the stack, and the exit of every unit, the unit of the constructor too
LifecycleOfFrames == [][LifecycleStep]_vars

-----------------------------------------------------------------------------
(* C31: The store is empty at construction, and whenever the stack is      *)
(* empty the store is empty: no name is in the name set or in a component  *)
(* table, so nothing a scenario unit or a speak unit made is left when the *)
(* last unit has gone.                                                     *)
EmptyStackEmptyStore ==
    m_stack = <<>> => StoreNames(entities) = {}

\* the script with two speaks and two nested scenarios has run to its end:
\* the last frame popped the "init" unit, which had made three entities
EmptyStackEmptyStoreWitness ==
    /\ m_stack = <<>>
    /\ lastOp = "POP"
    /\ lastTop.scenarioName = "init"
    /\ Cardinality(lastTop.m_nameSetMadeOnThis) = 3
    /\ StoreNames(entities) = {}

(* C32: No leaked entities.  The store is empty at construction, and in    *)
(* every state each name of the store's name set is in the                 *)
(* m_nameSetMadeOnThis of a scenario unit that is on the stack or is the   *)
(* text entity (entity name + "_speak") of a speak unit that is on the     *)
(* stack.                                                                  *)
NoLeakedEntities == entities.nameSet \subseteq OwnedOnStack(m_stack)

\* a speak unit on top of three scenario units: its text entity and the four
\* entities of the scenarios are the names of the store
NoLeakedEntitiesWitness ==
    /\ Len(m_stack) = 4
    /\ Top(m_stack).kind = "speak"
    /\ SpeakName(Top(m_stack).m_entityName) \in entities.nameSet
    /\ Cardinality(entities.nameSet) = 5

-----------------------------------------------------------------------------
\* the tables of the make steps the scenario unit has run so far
DeclaredBy(unit) ==
    LET steps == Steps(reader, unit.scenarioName)
    IN UNION {{steps[k].make[i] : i \in DOMAIN steps[k].make} :
                 k \in {j \in 1..(unit.m_now - 1) : j \in DOMAIN steps /\ steps[j].isMake}}

(* C33, as claimed: Owned entities stay live.  For as long as a scenario   *)
(* unit is on the stack, every entity one of its make steps declared is in *)
(* the name set and has the components the declaration gave it: a position *)
(* and a sprite if it gave one, and a text that the unit declared for it.  *)
OwnedStayLive ==
    \A i \in DOMAIN m_stack :
        m_stack[i].kind = "scenario" =>
           \A decl \in DeclaredBy(m_stack[i]) :
              /\ decl.name \in entities.nameSet
              /\ decl.hasPos => decl.name \in DOMAIN entities.posTable
              /\ decl.hasImage => decl.name \in DOMAIN entities.imageTable
              /\ decl.hasText =>
                    /\ decl.name \in DOMAIN entities.textTable
                    /\ \E d \in DeclaredBy(m_stack[i]) :
                          /\ d.name = decl.name /\ d.hasText
                          /\ entities.textTable[decl.name] = d.text

\* the part of C33 that holds: in the scripts where no name is declared by
\* two units on the stack and no speak unit's text entity has a declared
\* name, owned entities stay live
OwnedStayLiveApart ==
    reader \notin {BankCollide} => OwnedStayLive

-----------------------------------------------------------------------------
\* the speak units of stack that the calls of a frame exited
SpeaksDismissed(stack, calls) ==
    {i \in DOMAIN stack :
        stack[i].kind = "speak" /\ CallsOf(calls, "onBeforePop", stack[i].id) # {}}

\* the frame's update of an adventure unit started a linked scenario
LinkActivated(stack, op) == Top(stack).kind = "adventure" /\ op = "PUSH"

(* C34: A frame in which the confirm key goes down has at most one         *)
(* reaction to it: it dismisses one speak unit or starts one linked        *)
(* scenario of an adventure unit, never both and never two speak units.    *)
(* The frame makes one update call, on the unit that was on top; the unit  *)
(* it pushes or uncovers gets no update in that frame, so it sees the key  *)
(* only if the key goes down again in a later frame.                       *)
ConfirmReactsOnce ==
    [][(m_stack # <<>> /\ status = "running" /\ lastIn'.space) =>
          LET dismissed == SpeaksDismissed(m_stack, trace')
              started == IF LinkActivated(m_stack, lastOp') THEN 1 ELSE 0
          IN /\ Cardinality(dismissed) + started <= 1
             /\ Top(m_stack).kind = "speak" =>
                   /\ lastOp' = "POP"
                   /\ dismissed = {Len(m_stack)}
             /\ CallsTo(trace', "update") = {1}
             /\ trace'[1] = Call("update", Top(m_stack))
             /\ m_stack' # <<>> /\ lastOp' \in {"POP", "PUSH"} =>
                   /\ Top(m_stack').id # Top(m_stack).id
                   /\ CallsOf(trace', "update", Top(m_stack').id) = {}]_vars

\* the confirm key has dismissed the speak of the linked scenario "Talk";
\* the scenario under it has not been updated in that frame
ConfirmReactsOnceWitness ==
    /\ lastIn.space
    /\ lastTop.kind = "speak"
    /\ lastOp = "POP"
    /\ Len(trace) = 2
    /\ Top(m_stack).kind = "scenario"
    /\ Top(m_stack).scenarioName = "Talk"
    /\ Top(m_stack).m_now = 2

-----------------------------------------------------------------------------
(* C35: A test unit is constructed with m_time = n, the number of its      *)
(* parameter, or 120 when a test unit made it.  Each update counts m_time  *)
(* down by one: with m_time > 0 before the update it returns NONE, with    *)
(* m_time = 0, which is update n + 1, it returns REPLACE by TestState(120). *)
(* So a stack with a test unit never becomes empty: the frame leaves a     *)
(* test unit on top, and from its first REPLACE on the test unit is the    *)
(* only unit of the stack and the store has no entity.                     *)
TestCountsDown ==
    [][/\ (lastOp' = "PUSH" /\ Top(m_stack').kind = "test") =>
              Top(m_stack').m_time = StepAt(Top(m_stack)).param.num
       /\ (m_stack # <<>> /\ status = "running" /\ Top(m_stack).kind = "test") =>
              LET top == Top(m_stack)
              IN /\ top.m_time >= 0
                 /\ top.m_time > 0 =>
                       /\ lastOp' = "NONE"
                       /\ m_stack' = [m_stack EXCEPT ![Len(m_stack)].m_time = top.m_time - 1]
                       /\ entities' = entities
                 /\ top.m_time = 0 =>
                       /\ lastOp' = "REPLACE"
                       /\ m_stack' = <<TestState(nextId, 120)>>
                       /\ StoreNames(entities') = {}
                 /\ status' = "running"
                 /\ m_stack' # <<>>
                 /\ Top(m_stack').kind = "test"
                 /\ lastOp = "REPLACE" \/ Len(m_stack) = 1 => Len(m_stack') = 1]_vars

\* the test unit of scenario "C", made with 1, has returned REPLACE on its
\* second update: the stack is the new test unit alone, with 120 to count
TestCountsDownWitness ==
    /\ lastOp = "REPLACE"
    /\ lastTop.kind = "test"
    /\ lastTop.m_time = 0
    /\ m_stack = <<TestState(nextId - 1, 120)>>
    /\ StoreNames(entities) = {}


-----------------------------------------------------------------------------
(* The article's scenario.toml *)

\* the sample file as the article's ScenarioState::update reads it
ArticleToml == SampleToml(TRUE)

\* the sample file is run by the article's ScenarioState::update
ArticleRun == reader = ArticleToml

\* the scenario unit at position k of the stack runs the scenario called name
RunsAt(k, name) ==
    /\ k \in DOMAIN m_stack
    /\ m_stack[k].kind = "scenario"
    /\ m_stack[k].scenarioName = name

(* C36: Sample stack depth.  When the article's ScenarioState::update runs *)
(* the sample scenario.toml with the six units of MAKE_TABLE, then after    *)
(* every frame, whatever keys and delta times the frames had, the stack    *)
(* holds at least one unit and at most four.                               *)
SampleStackDepth == ArticleRun => (m_stack # <<>> /\ Len(m_stack) <= 4)

\* four deep: Room1, its exploration, Talk, and the npc's walk to the door
SampleStackDepthWitness ==
    /\ ArticleRun
    /\ Len(m_stack) = 4
    /\ RunsAt(1, "Room1")
    /\ m_stack[2].kind = "adventure"
    /\ RunsAt(3, "Talk")
    /\ m_stack[4].kind = "walk"
    /\ m_stack[4].m_to = 550
    /\ lastOp = "NONE"

\* the run has gone through the door: Room2 alone under its exploration
SampleReachesRoom2 ==
    /\ ArticleRun
    /\ Len(m_stack) = 2
    /\ RunsAt(1, "Room2")
    /\ m_stack[2].kind = "adventure"
    /\ lastOp = "NONE"
    /\ lastTop.kind = "adventure"

\* the run never comes to the bound on the units it constructs
SampleUnitsUnbounded == ArticleRun => nextId <= 24

\* Talk has run to its end in Room1: the npc is at x = 1000 and hidden
TalkCompleted ==
    /\ ArticleRun
    /\ RunsAt(1, "Room1")
    /\ "npc" \in DOMAIN entities.posTable
    /\ "npc" \in DOMAIN entities.imageTable
    /\ entities.posTable["npc"].x = 1000
    /\ entities.imageTable["npc"].isHidden

\* the frame's top unit was an exploration and it pushed the scenario Talk
AdventurePushedTalk ==
    /\ lastOp = "PUSH"
    /\ lastTop.kind = "adventure"
    /\ RunsAt(Len(m_stack), "Talk")

(* C37: Talk runs once.  In the sample scenario.toml, when Talk has read   *)
(* all its twelve steps in Room1 the npc is at x = 1000 and hidden, and it *)
(* stays so for as long as Room1 is on the stack; from then on the player  *)
(* is at 0 <= x <= 640 whenever an exploration is on top, so at least 60   *)
(* away from the npc, and no update of the exploration pushes Talk.        *)
TalkRunsOnce ==
    /\ [](ArticleRun /\ RunsAt(Len(m_stack), "Talk") /\ Top(m_stack).m_now = 13
              => TalkCompleted)
    /\ [](TalkCompleted /\ Top(m_stack).kind = "adventure"
              => /\ entities.posTable["player"].x >= AdventureMinX
                 /\ entities.posTable["player"].x <= AdventureMaxX
                 /\ Abs(entities.posTable["player"].x - entities.posTable["npc"].x)
                       >= LinkDistance)
    /\ [][TalkCompleted => /\ RunsAt(1, "Room1")' => TalkCompleted'
                           /\ ~AdventurePushedTalk']_vars

\* after Talk the player has walked to the right wall, as near to the npc as
\* the room lets it, and the confirm key was down in the frame
TalkRunsOnceWitness ==
    /\ TalkCompleted
    /\ Top(m_stack).kind = "adventure"
    /\ lastTop.kind = "adventure"
    /\ lastOp = "NONE"
    /\ lastIn.space
    /\ entities.posTable["player"].x = AdventureMaxX

\* after Talk the exploration of Room1 still starts the other link
DoorAfterTalk ==
    /\ TalkCompleted
    /\ lastOp = "PUSH"
    /\ lastTop.kind = "adventure"
    /\ RunsAt(Len(m_stack), "Door")

-----------------------------------------------------------------------------
(* Termination *)

\* every name a make step of the entry scenario declares
CreatedNames == {d.name : d \in DeclaredBefore(Steps(reader, "init"), Len(Steps(reader, "init")) + 1)}

(* C38, as claimed: Termination.  For an entry scenario whose steps are    *)
(* make batches and pushes of wait, anim and walk, the walks of positive   *)
(* speed and the entities existing, the stack becomes empty if every frame *)
(* has a positive delta time, and the store then has none of the entities  *)
(* the scenario created.                                                   *)
TerminatesAsClaimed ==
    /\ [](PlainScript(reader, NoComponents) /\ m_stack = <<>>
             => StoreNames(entities) \cap CreatedNames = {})
    /\ (PlainScript(reader, NoComponents) => <>(m_stack = <<>>))

(* C38: Termination.  For an entry scenario whose steps are make batches   *)
(* and pushes of wait, anim and walk, the walks of positive speed and the  *)
(* entities declared with the components the unit reads (a position and a  *)
(* sprite for walk, a sprite for anim), the stack becomes empty if every   *)
(* frame has a positive delta time, and the store then has none of the     *)
(* entities the scenario created.                                          *)
Terminates ==
    /\ [](PlainScript(reader, ComponentsRead) /\ m_stack = <<>>
             => StoreNames(entities) \cap CreatedNames = {})
    /\ (PlainScript(reader, ComponentsRead) => <>(m_stack = <<>>))

\* the script of three walks and an anim has run out and the entry scenario
\* has left the stack
TerminatesWitness ==
    /\ PlainScript(reader, ComponentsRead)
    /\ \E k \in DOMAIN Steps(reader, "init") : Steps(reader, "init")[k].stateName = "walk"
    /\ CreatedNames # {}
    /\ m_stack = <<>>
    /\ lastOp = "POP"
    /\ lastTop.kind = "scenario"
    /\ lastTop.m_now = lastTop.m_end

-----------------------------------------------------------------------------
(* The step position at a failure *)

\* what the next update of a scenario unit would do, were it called
WouldContinue(unit, ents) == ScenarioState_update(unit, ents, reader, nextId)

(* C39: Step consumed at a failure.  When the update of a scenario unit    *)
(* throws, the step it read has a name MAKE_TABLE lacks and the unit is    *)
(* left on the stack with m_now one past that step: a further update of    *)
(* the unit would pop if the step was the last, and would otherwise read   *)
(* the step after it and leave m_now two past the step that failed.        *)
StepConsumedAtFailure ==
    [][lastOp' = "THROW" /\ Top(m_stack).kind = "scenario" =>
          LET failed == Top(m_stack)
              left == m_stack'[Len(m_stack')]
          IN /\ Len(m_stack') = Len(m_stack)
             /\ UnknownName(StepAt(failed))
             /\ left = [failed EXCEPT !.m_now = failed.m_now + 1]
             /\ LET r == WouldContinue(left, entities')
                IN IF left.m_now = left.m_end
                   THEN r.type = "POP" /\ ~r.threw
                   ELSE r.self.m_now = failed.m_now + 2]_vars

\* the first of three steps has failed and the unit stands at the second
StepConsumedAtFailureWitness ==
    /\ status = "error"
    /\ lastOp = "THROW"
    /\ lastTop.kind = "scenario"
    /\ lastTop.m_now = 1
    /\ Top(m_stack).id = lastTop.id
    /\ Top(m_stack).m_now = 2
    /\ Top(m_stack).m_end = 4
    /\ WouldContinue(Top(m_stack), entities).type = "NONE"
    /\ "a" \in WouldContinue(Top(m_stack), entities).entities.nameSet

-----------------------------------------------------------------------------
(* The wait unit and the store *)

\* stack b is stack a with nothing changed but the m_time of its top unit
SameButTopTime(a, b) ==
    /\ Len(b) = Len(a)
    /\ \A k \in 1..(Len(a) - 1) : b[k] = a[k]
    /\ b[Len(a)] = [a[Len(a)] EXCEPT !.m_time = b[Len(a)].m_time]

(* C40: Wait leaves the store alone.  A frame that pushes a wait unit and  *)
(* calls its onAfterPush, a frame that updates a wait unit, and a frame    *)
(* that pops it through its onBeforePop leave the name set and the three   *)
(* component tables as they were.  When the update returns NONE the stack  *)
(* keeps the same units in the same order, the wait with less time left;   *)
(* when it returns POP the stack loses the wait and nothing else.          *)
WaitLeavesStore ==
    [][/\ (lastOp' = "PUSH" /\ Top(m_stack').kind = "wait" /\ Top(m_stack').id = nextId)
           => entities' = entities
       /\ (m_stack # <<>> /\ status = "running" /\ Top(m_stack).kind = "wait")
           => /\ entities' = entities
              /\ lastOp' \in {"NONE", "POP"}
              /\ lastOp' = "NONE" => SameButTopTime(m_stack, m_stack')
              /\ lastOp' = "POP" =>
                    m_stack' = SubSeq(m_stack, 1, Len(m_stack) - 1)]_vars

\* a wait on top of three scenarios has returned NONE over a store with
\* entities of all three
WaitLeavesStoreWitness ==
    /\ lastOp = "NONE"
    /\ lastTop.kind = "wait"
    /\ Len(m_stack) = 4
    /\ Top(m_stack).id = lastTop.id
    /\ Top(m_stack).m_time = lastTop.m_time - lastIn.dt
    /\ Cardinality(entities.nameSet) >= 4
    /\ entities.textTable # <<>>

\* a wait has left the stack and the store still has its entities
WaitLeftStore ==
    /\ lastOp = "POP"
    /\ lastTop.kind = "wait"
    /\ m_stack # <<>>
    /\ entities.nameSet # {}
=============================================================================
